---- MODULE Spec2Model ----
(***************************************************************************)
(* Flowxus: rule-based validation and repair of 2D surface meshes.         *)
(*                                                                         *)
(* The module models                                                       *)
(*   - the error-tier rules duplicate_elements and surface_orientation     *)
(*     (Mesh/checks/errors.py),                                            *)
(*   - the edit primitives remove_cells / reorient_cells                   *)
(*     (Mesh/repair/ops.py) and the three fixers (Mesh/repair/fixers),     *)
(*   - the orchestrators run_checks (Mesh/checks/__init__.py) and          *)
(*     run_repair (Mesh/repair/__init__.py).                               *)
(*                                                                         *)
(* Arrays are 0-based in the source and 1-based here: cell i of the source *)
(* is tris[i + 1].  Indices stored in findings keep the source's 0-based   *)
(* numbering.  Areas are kept doubled (2 * area) so that the arithmetic on *)
(* the integer point table is exact; every comparison of the source is a   *)
(* comparison with 0 and is unaffected by the factor 0.5.                  *)
(***************************************************************************)
EXTENDS Integers, Sequences, FiniteSets, TLC

VARIABLES
    mesh,      \* the Mesh / MeshView connectivity: [tris |-> Seq, quads |-> Seq]
    pre,       \* the mesh before the last operation
    op,        \* the last operation that acted ("init" before any)
    arg,       \* the argument of the last operation
    ret,       \* what the last operation returned
    registry   \* Mesh/checks/registry.py REGISTRY: rule id -> RuleSpec

meshVars == <<mesh, pre, op, arg, ret>>
vars == <<meshVars, registry>>

None == "None"

(***************************************************************************)
(* Bounds of the model.                                                    *)
(***************************************************************************)
MaxCells == 3        \* cells (triangles + quads) of an input mesh
MaxMultiCells == 4   \* cells of an input mesh of SpecMulti
MaxRepairCells == 3  \* cells of an input mesh of SpecRepair
MaxCheckCells == 1   \* cells of an input mesh of SpecChecks
MaxRemoveCells == 3  \* cells of an input mesh of SpecRemove
MaxRemoveIdxs == 2   \* length of the index list handed to remove_cells in SpecRemove
MaxFailing == 1      \* rules without a model of their own that fail in one run_checks call
MaxCacheCells == 3   \* cells of an input mesh of SpecCache
MaxOverlapCells == 3 \* cells of an input mesh of SpecOverlap
MaxReorientIdxs == 2 \* length of the index list handed to reorient_cells in SpecReorient

(***************************************************************************)
(* Sequence helpers (Python list semantics).                               *)
(***************************************************************************)
Min2(a, b) == IF a <= b THEN a ELSE b
Max2(a, b) == IF a >= b THEN a ELSE b
Abs(x) == IF x < 0 THEN -x ELSE x

\* xs[:n]
Take(xs, n) == SubSeq(xs, 1, Min2(n, Len(xs)))

\* xs[::-1]
Reverse(xs) == [k \in 1..Len(xs) |-> xs[Len(xs) + 1 - k]]

SetMin(S) == CHOOSE x \in S : \A y \in S : x <= y

\* sorted(S) for a finite set of integers
RECURSIVE SortedSeqOf(_)
SortedSeqOf(S) ==
    IF S = {} THEN <<>>
    ELSE LET m == SetMin(S) IN <<m>> \o SortedSeqOf(S \ {m})

\* np.sort(row): the entries of a cell in ascending order, repetitions kept
RECURSIVE SortRow(_)
SortRow(c) ==
    IF Len(c) = 0 THEN <<>>
    ELSE LET p == CHOOSE k \in 1..Len(c) : \A j \in 1..Len(c) : c[k] <= c[j]
             rest == [k \in 1..(Len(c) - 1) |-> IF k < p THEN c[k] ELSE c[k + 1]]
         IN  <<c[p]>> \o SortRow(rest)

\* all sequences over S of length at most n
SeqUpTo(S, n) == UNION {[1..k -> S] : k \in 0..n}

(***************************************************************************)
(* The point table of the input mesh (mv.points / mesh.points).  Node 1    *)
(* lies on the segment 0-2, so the node set {0,1,2} is a zero-area         *)
(* triangle; the other three node sets have pairwise different areas.      *)
(***************************************************************************)
Points == [n \in 0..3 |->
             CASE n = 0 -> <<0, 0>>
               [] n = 1 -> <<1, 0>>
               [] n = 2 -> <<3, 0>>
               [] n = 3 -> <<0, 2>>]

Nodes == DOMAIN Points
PX(n) == Points[n][1]
PY(n) == Points[n][2]

NodeSets3 == {s \in SUBSET Nodes : Cardinality(s) = 3}

\* For every node set a < b < c: the sorted order and its reversal (opposite
\* winding); for the node set {0,1,3} also a rotation of the sorted order
\* (same winding).
TriCells ==
    UNION {LET r == SortedSeqOf(s)
           IN  {r, Reverse(r)} \cup (IF 2 \in s THEN {} ELSE {<<r[2], r[3], r[1]>>}) :
           s \in NodeSets3}

\* Quads over the four nodes: counter-clockwise, its reversal, a rotation,
\* and the bow-tie order 0,2,1,3.
QuadCells == {<<0, 1, 2, 3>>, <<3, 2, 1, 0>>, <<1, 2, 3, 0>>, <<0, 2, 1, 3>>}

\* ops.py mesh_from_reader / helpers.py build_mesh_view: an array the reader
\* gives empty is stored as None; `none` holds the kinds stored as None.
mesh_from_reader(t, q) ==
    [tris |-> t, quads |-> q,
     none |-> {k \in {"tri", "quad"} : (IF k = "tri" THEN Len(t) ELSE Len(q)) = 0}]

\* m is read from a mesh file with at most MaxCells cells in all
InputMesh(m) ==
    \E nt \in 0..MaxCells : \E nq \in 0..(MaxCells - nt) :
        \E t \in [1..nt -> TriCells], q \in [1..nq -> QuadCells] :
            m = mesh_from_reader(t, q)

\* the set of nodes of a cell
NodeSet(c) == {c[k] : k \in 1..Len(c)}

(***************************************************************************)
(* Signed areas (doubled).                                                 *)
(***************************************************************************)
\* errors.py surface_orientation, triangle branch; ops.py _tri_area_xy
TriArea2(c) ==
    (PX(c[2]) - PX(c[1])) * (PY(c[3]) - PY(c[1]))
  - (PY(c[2]) - PY(c[1])) * (PX(c[3]) - PX(c[1]))

\* errors.py surface_orientation, quad branch (shoelace); ops.py _quad_area_xy
QuadArea2(c) ==
    PX(c[1]) * PY(c[2]) - PY(c[1]) * PX(c[2])
  + PX(c[2]) * PY(c[3]) - PY(c[2]) * PX(c[3])
  + PX(c[3]) * PY(c[4]) - PY(c[3]) * PX(c[4])
  + PX(c[4]) * PY(c[1]) - PY(c[4]) * PX(c[1])

(***************************************************************************)
(* Findings.                                                               *)
(***************************************************************************)
EXAMPLES_CAP == 25       \* _finding: examples[:25]
RULE_EXAMPLES_CAP == 20  \* the rules pass bad[:20] / dup_ids[:20]

\* errors.py _finding
Finding(rule_id, ok, count, examples, fixable) ==
    [id |-> rule_id, severity |-> "error", ok |-> ok, count |-> count,
     examples |-> Take(examples, EXAMPLES_CAP), fixable |-> fixable]

\* [("tri", i) for i in ...]
Tagged(kind, idxs) == [k \in 1..Len(idxs) |-> <<kind, idxs[k]>>]

(***************************************************************************)
(* surface_orientation                                                     *)
(***************************************************************************)
\* mutant: a non-strict comparison flags zero-area triangles too
BadTrisNonStrict(m) == {i \in 0..(Len(m.tris) - 1) : TriArea2(m.tris[i + 1]) <= 0}

\* np.nonzero(areas < 0.0)[0] over the triangles (0-based indices)
BadTris(m) == {i \in 0..(Len(m.tris) - 1) : TriArea2(m.tris[i + 1]) < 0}

\* np.nonzero(areas < 0.0)[0] over the quads
BadQuads(m) == {i \in 0..(Len(m.quads) - 1) : QuadArea2(m.quads[i + 1]) < 0}

surface_orientation(m) ==
    LET bad == Tagged("tri", SortedSeqOf(BadTris(m)))
               \o Tagged("quad", SortedSeqOf(BadQuads(m)))
    IN  Finding("surface_orientation", Len(bad) = 0, Len(bad),
                Take(bad, RULE_EXAMPLES_CAP), TRUE)

(***************************************************************************)
(* duplicate_elements                                                      *)
(***************************************************************************)
\* bitwise exclusive or of two naturals (numpy ^ on int64)
RECURSIVE BitXor(_, _)
BitXor(a, b) ==
    IF a = 0 THEN b
    ELSE IF b = 0 THEN a
    ELSE (((a % 2) + (b % 2)) % 2) + 2 * BitXor(a \div 2, b \div 2)

HASH_P1 == 73856093
HASH_P2 == 19349663
HASH_P3 == 83492791
\* the fourth multiplier 2654435761 = HASH_P4_HI * 65536 + HASH_P4_LO does
\* not fit 32-bit integer arithmetic; the int64 keys are kept as
\* <<high, low>> with low the 16 low bits
HASH_P4_HI == 40503
HASH_P4_LO == 31153
LIMB == 65536

Key64(n) == <<n \div LIMB, n % LIMB>>
KeyXor(k1, k2) == <<BitXor(k1[1], k2[1]), BitXor(k1[2], k2[2])>>
\* d * 2654435761 as <<high, low>>
MulP4(d) ==
    <<(d * HASH_P4_HI) + ((d * HASH_P4_LO) \div LIMB), (d * HASH_P4_LO) % LIMB>>

\* keys = s[:,0]*73856093 ^ s[:,1]*19349663 ^ s[:,2]*83492791 on the sorted row
TriKey(c) ==
    LET s == SortRow(c)
    IN  KeyXor(KeyXor(Key64(s[1] * HASH_P1), Key64(s[2] * HASH_P2)),
               Key64(s[3] * HASH_P3))

\* ... ^ s[:,3]*2654435761 for quads
QuadKey(c) ==
    LET s == SortRow(c)
    IN  KeyXor(KeyXor(KeyXor(Key64(s[1] * HASH_P1), Key64(s[2] * HASH_P2)),
                      Key64(s[3] * HASH_P3)),
               MulP4(s[4]))

\* The mask the loop over np.unique(keys, return_index, return_counts)
\* builds: for every key that occurs cnt > 1 times and first at idx, the
\* slice dup_mask[idx+1 : idx+cnt] is set (0-based positions).
DupMask(keys) ==
    LET n == Len(keys)
        first_idx(k) == SetMin({p \in 0..(n - 1) : keys[p + 1] = k})
        counts(k) == Cardinality({p \in 0..(n - 1) : keys[p + 1] = k})
    IN  {p \in 0..(n - 1) :
            \E k \in {keys[j] : j \in 1..n} :
                /\ counts(k) > 1
                /\ first_idx(k) + 1 <= p
                /\ p < first_idx(k) + counts(k)}

DupTris(m) == DupMask([k \in 1..Len(m.tris) |-> TriKey(m.tris[k])])
DupQuads(m) == DupMask([k \in 1..Len(m.quads) |-> QuadKey(m.quads[k])])

duplicate_elements(m) ==
    LET dup_ids == Tagged("tri", SortedSeqOf(DupTris(m)))
                   \o Tagged("quad", SortedSeqOf(DupQuads(m)))
    IN  Finding("duplicate_elements", Len(dup_ids) = 0, Len(dup_ids),
                Take(dup_ids, RULE_EXAMPLES_CAP), TRUE)

(***************************************************************************)
(* Edit primitives (Mesh/repair/ops.py).  An operation yields              *)
(* [mesh, ret, err]: the mesh as the call leaves it, the returned count,   *)
(* and the exception it raised (None when it returned).                    *)
(***************************************************************************)
Cells(m, kind) == IF kind = "tri" THEN m.tris ELSE m.quads

SetCells(m, kind, rows) ==
    IF kind = "tri" THEN [m EXCEPT !.tris = rows] ELSE [m EXCEPT !.quads = rows]

Kinds == {"tri", "quad"}

Outcome(m, r, e) == [mesh |-> m, ret |-> r, err |-> e]

\* numpy index i into an array of n rows: valid for -n <= i < n, a negative
\* index counts from the end
InRange(i, n) == -n <= i /\ i < n
Pos(i, n) == IF i < 0 THEN i + n ELSE i

\* arr[mask]: the rows whose 0-based position is not in `drop`, in order
RECURSIVE Keep(_, _, _)
Keep(rows, drop, k) ==
    IF k > Len(rows) THEN <<>>
    ELSE (IF (k - 1) \in drop THEN <<>> ELSE <<rows[k]>>) \o Keep(rows, drop, k + 1)

\* mutant: the mask is cleared only at the largest listed index
remove_cells_last_only(m, kind, idxs) ==
    IF Len(idxs) = 0 THEN Outcome(m, 0, None)
    ELSE IF kind \notin Kinds THEN Outcome(m, None, "ValueError")
    ELSE IF kind \in m.none THEN Outcome(m, 0, None)
    ELSE LET rows == Cells(m, kind)
             n == Len(rows)
             S == {idxs[k] : k \in 1..Len(idxs)}
             top == CHOOSE x \in S : \A y \in S : y <= x
         IN  IF \E i \in S : ~InRange(i, n) THEN Outcome(m, None, "IndexError")
             ELSE Outcome(SetCells(m, kind, Keep(rows, {Pos(top, n)}, 1)),
                          Cardinality(S), None)

remove_cells(m, kind, idxs) ==
    IF Len(idxs) = 0 THEN Outcome(m, 0, None)
    ELSE IF kind \notin Kinds THEN Outcome(m, None, "ValueError")
    ELSE IF kind \in m.none THEN Outcome(m, 0, None)
    ELSE LET rows == Cells(m, kind)
             n == Len(rows)
             S == {idxs[k] : k \in 1..Len(idxs)}       \* sorted(set(idxs))
         IN  IF \E i \in S : ~InRange(i, n) THEN Outcome(m, None, "IndexError")
             ELSE Outcome(SetCells(m, kind, Keep(rows, {Pos(i, n) : i \in S}, 1)),
                          Cardinality(S), None)

\* mutant: only the first listed cell is flipped
FlipLoopFirstOnly(rows, idxs, k) ==
    IF ~InRange(idxs[1], Len(rows)) THEN [rows |-> rows, err |-> "IndexError"]
    ELSE [rows |-> [rows EXCEPT ![Pos(idxs[1], Len(rows)) + 1] = Reverse(@)], err |-> None]


\* the loop `for i in idxs: A[i, :] = A[i, ::-1]` from position k on; the
\* rows flipped before an out-of-range index stay flipped
RECURSIVE FlipLoop(_, _, _)
FlipLoop(rows, idxs, k) ==
    IF k > Len(idxs) THEN [rows |-> rows, err |-> None]
    ELSE IF ~InRange(idxs[k], Len(rows)) THEN [rows |-> rows, err |-> "IndexError"]
    ELSE LET p == Pos(idxs[k], Len(rows)) + 1
         IN  FlipLoop([rows EXCEPT ![p] = Reverse(@)], idxs, k + 1)

\* mutant: a rotation of the node order instead of its reversal
RECURSIVE RotateLoop(_, _, _)
RotateLoop(rows, idxs, k) ==
    IF k > Len(idxs) THEN [rows |-> rows, err |-> None]
    ELSE IF ~InRange(idxs[k], Len(rows)) THEN [rows |-> rows, err |-> "IndexError"]
    ELSE LET p == Pos(idxs[k], Len(rows)) + 1
         IN  RotateLoop([rows EXCEPT ![p] = Tail(@) \o <<Head(@)>>], idxs, k + 1)

reorient_cells_rotating(m, kind, idxs) ==
    IF Len(idxs) = 0 THEN Outcome(m, 0, None)
    ELSE IF kind \notin Kinds THEN Outcome(m, None, "ValueError")
    ELSE IF kind \in m.none THEN Outcome(m, 0, None)
    ELSE LET r == RotateLoop(Cells(m, kind), idxs, 1)
         IN  IF r.err # None THEN Outcome(SetCells(m, kind, r.rows), None, r.err)
             ELSE Outcome(SetCells(m, kind, r.rows), Len(idxs), None)

reorient_cells(m, kind, idxs) ==
    IF Len(idxs) = 0 THEN Outcome(m, 0, None)
    ELSE IF kind \notin Kinds THEN Outcome(m, None, "ValueError")
    ELSE IF kind \in m.none THEN Outcome(m, 0, None)
    ELSE LET r == FlipLoop(Cells(m, kind), idxs, 1)
         IN  IF r.err # None THEN Outcome(SetCells(m, kind, r.rows), None, r.err)
             ELSE Outcome(SetCells(m, kind, r.rows), Len(idxs), None)

(***************************************************************************)
(* Fixers (Mesh/repair/fixers).  A fixer yields [mesh, result, err] with   *)
(* result = [applied, waived, notes] when it returns.                      *)
(***************************************************************************)
FixResult(m, a, notes) ==
    [mesh |-> m, result |-> [applied |-> a, waived |-> 0, notes |-> notes], err |-> None]

FixRaised(m, e) == [mesh |-> m, result |-> None, err |-> e]

\* [i for (k, i) in ex if k == kind]
RECURSIVE IdxOfKind(_, _, _)
IdxOfKind(ex, kind, k) ==
    IF k > Len(ex) THEN <<>>
    ELSE (IF ex[k][1] = kind THEN <<ex[k][2]>> ELSE <<>>) \o IdxOfKind(ex, kind, k + 1)

\* repair/utils.py canon_tri, canon_quad: the canonical key of a cell is its
\* sorted node tuple
canon_tri(conn) == SortRow(conn)
canon_quad(conn) == SortRow(conn)

\* mutant: only the first occurrence after another is looked at (adjacent
\* repetitions), instead of every earlier key
ReconfirmAdjacentOnly(rows, kind) ==
    LET key(k) == IF kind = "tri" THEN canon_tri(rows[k]) ELSE canon_quad(rows[k])
    IN  SortedSeqOf({i \in 0..(Len(rows) - 1) : i > 0 /\ key(i) = key(i + 1)})

\* duplicates.py _reconfirm_duplicates, one kind: the indices whose key was
\* seen at a smaller index, ascending
Reconfirm(rows, kind) ==
    LET key(k) == IF kind = "tri" THEN canon_tri(rows[k]) ELSE canon_quad(rows[k])
    IN  SortedSeqOf({i \in 0..(Len(rows) - 1) :
                        \E j \in 0..(i - 1) : key(j + 1) = key(i + 1)})

_reconfirm_duplicates(m, examples) ==
    [tri |-> Reconfirm(m.tris, "tri"), quad |-> Reconfirm(m.quads, "quad")]

\* `applied += <edit>(mesh, kind, idxs)` after an edit that ended as r1: r2
\* is how the second edit ends on r1.mesh; an exception of either ends both
Added(r1, r2) ==
    IF r1.err # None THEN r1
    ELSE IF r2.err # None THEN r2
    ELSE Outcome(r2.mesh, r1.ret + r2.ret, None)

\* `if idxs: applied += remove_cells(mesh, kind, idxs)`
RemoveIfAny(m, kind, idxs) ==
    IF Len(idxs) > 0 THEN remove_cells(m, kind, idxs) ELSE Outcome(m, 0, None)

RemoveNext(r1, kind, idxs) ==
    IF r1.err # None THEN r1 ELSE Added(r1, RemoveIfAny(r1.mesh, kind, idxs))

\* duplicates.py 62-76: the removals and the result, the buckets being known
RemoveDuplicates(m, buckets) ==
    LET Result(r) ==
            IF r.err # None THEN FixRaised(r.mesh, r.err)
            ELSE FixResult(r.mesh, r.ret,
                           IF r.ret = 0 THEN <<"No duplicates after reconfirmation.">>
                           ELSE <<"Removed", r.ret, "duplicate elements.">>)
    IN  Result(RemoveNext(RemoveIfAny(m, "tri", buckets.tri), "quad", buckets.quad))

\* mutant: the examples of the finding are removed without reconfirmation
fix_duplicates_trusting(m, finding, cfg) ==
    RemoveDuplicates(m, [tri |-> IdxOfKind(finding.examples, "tri", 1),
                         quad |-> IdxOfKind(finding.examples, "quad", 1)])

\* duplicates.py fix
fix_duplicates(m, finding, cfg) ==
    RemoveDuplicates(m, _reconfirm_duplicates(m, finding.examples))

\* canonical edge (min, max)
Edge(u, v) == <<Min2(u, v), Max2(u, v)>>

\* the edges of a cell: consecutive node pairs around its vertex cycle
CellEdges(c) == {Edge(c[k], c[(k % Len(c)) + 1]) : k \in 1..Len(c)}

\* the cells of a mesh as (kind, index), triangles first, then quads
UnifiedCells(m) ==
    Tagged("tri", [k \in 1..Len(m.tris) |-> k - 1])
    \o Tagged("quad", [k \in 1..Len(m.quads) |-> k - 1])

ConnOf(m, kc) == Cells(m, kc[1])[kc[2] + 1]

MeshEdges(m) ==
    UNION ({CellEdges(m.tris[k]) : k \in 1..Len(m.tris)}
           \cup {CellEdges(m.quads[k]) : k \in 1..Len(m.quads)})

\* xs filtered by a predicate on positions, order kept
RECURSIVE SelectPos(_, _, _)
SelectPos(xs, keep, k) ==
    IF k > Len(xs) THEN <<>>
    ELSE (IF k \in keep THEN <<xs[k]>> ELSE <<>>) \o SelectPos(xs, keep, k + 1)

\* repair/utils.py build_edge_cells, one entry: the (kind, index) cells
\* incident to edge e, in unified order
IncidentIn(m, u, e) ==
    SelectPos(u, {k \in 1..Len(u) : e \in CellEdges(ConnOf(m, u[k]))}, 1)

build_edge_cells(m, e) == IncidentIn(m, UnifiedCells(m), e)

\* multi_edges.py _cell_area (doubled)
_cell_area(m, kind, idx) ==
    IF kind = "tri" THEN Abs(TriArea2(m.tris[idx + 1]))
    ELSE Abs(QuadArea2(m.quads[idx + 1]))

\* sorted(inc, key=area): position of inc[p] in the stable ascending order
RankIn(m, inc, p) ==
    Cardinality({q \in 1..Len(inc) :
        \/ _cell_area(m, inc[q][1], inc[q][2]) < _cell_area(m, inc[p][1], inc[p][2])
        \/ /\ _cell_area(m, inc[q][1], inc[q][2]) = _cell_area(m, inc[p][1], inc[p][2])
           /\ q < p})

\* mutant: ranked[:-3], three cells are kept on an edge
ExtrasOfKeepThree(m, inc) ==
    IF Len(inc) <= 3 THEN <<>>
    ELSE SelectPos(inc, {p \in 1..Len(inc) : RankIn(m, inc, p) < Len(inc) - 3}, 1)


\* ranked[:-2] of the incident cells inc of one edge: every cell but the
\* two last of the ascending order; empty when the edge has at most two cells
ExtrasOf(m, inc) ==
    IF Len(inc) <= 2 THEN <<>>
    ELSE SelectPos(inc, {p \in 1..Len(inc) : RankIn(m, inc, p) < Len(inc) - 2}, 1)

Extras(m, e) == ExtrasOf(m, build_edge_cells(m, e))

EdgeLess(e, f) == e[1] < f[1] \/ (e[1] = f[1] /\ e[2] < f[2])

\* the extras of all edges, edge after edge (a cell may be listed more than
\* once; remove_cells works on the set of the listed indices, so the order
\* in which the edges are visited does not matter)
RECURSIVE AllExtras(_, _)
AllExtras(m, edges) ==
    IF edges = {} THEN <<>>
    ELSE LET e == CHOOSE x \in edges : \A y \in edges \ {x} : EdgeLess(x, y)
         IN  Extras(m, e) \o AllExtras(m, edges \ {e})

\* multi_edges.py 68-73: the removals and the result, the extras being known
RemoveExtras(m, extras) ==
    LET Result(r) ==
            IF r.err # None THEN FixRaised(r.mesh, r.err)
            ELSE FixResult(r.mesh, r.ret,
                           IF r.ret > 0
                           THEN <<"Edges with >2 incidence fixed; removed", r.ret, "cells.">>
                           ELSE <<"No oversubscribed edges.">>)
        RemoveQuads(r1) ==
            IF r1.err # None THEN r1
            ELSE Added(r1, remove_cells(r1.mesh, "quad", IdxOfKind(extras, "quad", 1)))
    IN  Result(RemoveQuads(remove_cells(m, "tri", IdxOfKind(extras, "tri", 1))))

\* multi_edges.py fix
fix_multi_edges(m, finding, cfg) == RemoveExtras(m, AllExtras(m, MeshEdges(m)))

\* orientation.py fix
fix_orientation(m, finding, cfg) ==
    LET ex == finding.examples
        ReorientIfAny(mm, kind, idxs) ==
            IF Len(idxs) > 0 THEN reorient_cells(mm, kind, idxs) ELSE Outcome(mm, 0, None)
        ReorientQuads(r1) ==
            IF r1.err # None THEN r1
            ELSE Added(r1, ReorientIfAny(r1.mesh, "quad", IdxOfKind(ex, "quad", 1)))
        Result(r) ==
            IF r.err # None THEN FixRaised(r.mesh, r.err)
            ELSE FixResult(r.mesh, r.ret,
                           IF r.ret > 0 THEN <<"Reoriented", r.ret, "cells.">>
                           ELSE <<"No cells to reorient.">>)
    IN  Result(ReorientQuads(ReorientIfAny(m, "tri", IdxOfKind(ex, "tri", 1))))

(***************************************************************************)
(* multiple_edges (errors.py): counts the keys of cache["edge_cells"].     *)
(***************************************************************************)
\* a finite set of edges as a list in lexicographic order
RECURSIVE SortedEdges(_)
SortedEdges(S) ==
    IF S = {} THEN <<>>
    ELSE LET e == CHOOSE x \in S : \A y \in S \ {x} : EdgeLess(x, y)
         IN  <<e>> \o SortedEdges(S \ {e})

multiple_edges(m) ==
    LET keys == MeshEdges(m)                               \* edge_cells.keys()
        counts(e) == Cardinality({k \in keys : k = e})     \* counts[e] += 1 per key
        dups == SortedEdges({e \in keys : counts(e) > 1})
    IN  Finding("multiple_edges", Len(dups) = 0, Len(dups),
                Take(dups, RULE_EXAMPLES_CAP), TRUE)

(***************************************************************************)
(* The rule registry after import (Mesh/checks/registry.py).               *)
(***************************************************************************)
\* the ids registered with severity "error", in registration order
ErrorRules ==
    <<"surface_orientation", "negative_jacobians", "duplicate_elements", "multiple_edges",
      "nonmanifold", "overlapping_elements", "uncovered_faces", "missing_internal_faces",
      "bl_continuity", "missing_physical_groups">>

\* the ids registered with severity "warn"
WarnRules ==
    <<"two_single_edges", "tiny_elements", "min_angle_tris", "quad_skewness_orthogonality",
      "grading_spikes", "first_layer_height", "boundary_coverage", "untagged_entities">>

Range(xs) == {xs[k] : k \in 1..Len(xs)}

\* registry.py REGISTRY: rule id -> RuleSpec (without fn)
REGISTRY ==
    [rid \in Range(ErrorRules) \cup Range(WarnRules) |->
        [id |-> rid,
         severity |-> IF rid \in Range(ErrorRules) THEN "error" ELSE "warn",
         fixable |-> rid \notin {"missing_physical_groups", "first_layer_height"}]]

(***************************************************************************)
(* SpecRules: a rule is run on an input mesh.                              *)
(***************************************************************************)
InitRules ==
    /\ InputMesh(mesh)
    /\ pre = mesh
    /\ op = "init"
    /\ arg = None
    /\ ret = None
    /\ registry = REGISTRY

RunSurfaceOrientation ==
    /\ op = "init"
    /\ ret' = surface_orientation(mesh)
    /\ op' = "surface_orientation"
    /\ UNCHANGED <<mesh, pre, arg, registry>>

RunDuplicateElements ==
    /\ op = "init"
    /\ ret' = duplicate_elements(mesh)
    /\ op' = "duplicate_elements"
    /\ UNCHANGED <<mesh, pre, arg, registry>>

NextRules == RunSurfaceOrientation \/ RunDuplicateElements

SpecRules == InitRules /\ [][NextRules]_vars

(***************************************************************************)
(* SpecEdit: reorient_cells is applied to an input mesh.                   *)
(***************************************************************************)
\* the index lists handed to reorient_cells: none, or one in-range index
IndexArgs(m, kind) == {<<>>} \cup {<<i>> : i \in 0..(Len(Cells(m, kind)) - 1)}

DoReorient ==
    /\ op = "init"
    /\ \E kind \in Kinds : \E idxs \in IndexArgs(mesh, kind) :
          LET r == reorient_cells(mesh, kind, idxs)
          IN  /\ mesh' = r.mesh
              /\ arg' = [kind |-> kind, idxs |-> idxs]
              /\ ret' = [ret |-> r.ret, err |-> r.err]
    /\ pre' = mesh
    /\ op' = "reorient_cells"
    /\ UNCHANGED registry

NextEdit == DoReorient

SpecEdit == InitRules /\ [][NextEdit]_vars

(***************************************************************************)
(* SpecFix: one fixer is applied to an input mesh with some finding.       *)
(***************************************************************************)
\* The findings a fixer may be handed for mesh m: the one the rule reports
\* on m, one without examples, one that names index 0 of both kinds
\* whatever the state of those cells, and one whose index is past the end.
FindingArgs(m, f) ==
    {f,
     [f EXCEPT !.ok = TRUE, !.count = 0, !.examples = <<>>],
     [f EXCEPT !.ok = FALSE, !.count = 2, !.examples = <<<<"tri", 0>>, <<"quad", 0>>>>],
     [f EXCEPT !.ok = FALSE, !.count = 1, !.examples = <<<<"tri", Len(m.tris)>>>>]}

Acted(name, finding, r) ==
    /\ mesh' = r.mesh
    /\ pre' = mesh
    /\ op' = name
    /\ arg' = finding
    /\ ret' = [result |-> r.result, err |-> r.err]
    /\ UNCHANGED registry

FixDuplicates ==
    /\ op = "init"
    /\ \E f \in FindingArgs(mesh, duplicate_elements(mesh)) :
          Acted("fix_duplicates", f, fix_duplicates(mesh, f, None))

FixOrientation ==
    /\ op = "init"
    /\ \E f \in FindingArgs(mesh, surface_orientation(mesh)) :
          Acted("fix_orientation", f, fix_orientation(mesh, f, None))

FixMultiEdges ==
    /\ op = "init"
    /\ \E f \in FindingArgs(mesh, multiple_edges(mesh)) :
          Acted("fix_multi_edges", f, fix_multi_edges(mesh, f, None))

NextFix == FixDuplicates \/ FixMultiEdges \/ FixOrientation

SpecFix == InitRules /\ [][NextFix]_vars

(***************************************************************************)
(* SpecMulti: the multi_edges fixer on meshes of up to MaxMultiCells cells *)
(* drawn from one triangle per node set and one quad.                      *)
(***************************************************************************)
MultiTriCells == {SortedSeqOf(s) : s \in NodeSets3}
MultiQuadCells == {<<0, 1, 2, 3>>}

InitMulti ==
    /\ \E nt \in 0..MaxMultiCells : \E nq \in 0..(MaxMultiCells - nt) :
          \E t \in [1..nt -> MultiTriCells], q \in [1..nq -> MultiQuadCells] :
              mesh = mesh_from_reader(t, q)
    /\ pre = mesh
    /\ op = "init"
    /\ arg = None
    /\ ret = None
    /\ registry = REGISTRY

NextMulti == FixMultiEdges

SpecMulti == InitMulti /\ [][NextMulti]_vars

(***************************************************************************)
(* run_repair (Mesh/repair/__init__.py).  Dicts are functions on strings:  *)
(* a key is present iff it is in the DOMAIN, {} (and None where the code   *)
(* writes `x or {}`) is EmptyDict.                                         *)
(***************************************************************************)
EmptyDict == <<>>

Get(dict, key, default) == IF key \in DOMAIN dict THEN dict[key] ELSE default

\* mutant: orientation is fixed before the topology
ORDER_orientation_first == <<"surface_orientation", "duplicate_elements", "multiple_edges">>

\* repair/registry.py ORDER
ORDER == <<"duplicate_elements", "multiple_edges", "surface_orientation">>

\* repair/registry.py FIXERS[rule_id].fn(mesh, finding, rule_cfg)
FIXERS(rule_id, m, finding, rule_cfg) ==
    CASE rule_id = "duplicate_elements" -> fix_duplicates(m, finding, rule_cfg)
      [] rule_id = "multiple_edges" -> fix_multi_edges(m, finding, rule_cfg)
      [] rule_id = "surface_orientation" -> fix_orientation(m, finding, rule_cfg)

\* repair/plan.py DEFAULT_PLAN
DEFAULT_PLAN ==
    [rules |-> [duplicate_elements |-> [action |-> "remove", prefer |-> "first"],
                multiple_edges |-> [action |-> "dedupe"],
                surface_orientation |-> [action |-> "reorient", target |-> "CCW"]],
     verify |-> FALSE,
     write_in_place |-> FALSE,
     keep_backup |-> TRUE]

\* merge_plan on two dicts whose values are not dicts: right-biased union
MergeLeaves(base, upd) ==
    [k \in (DOMAIN base) \cup (DOMAIN upd) |->
        IF k \in DOMAIN upd THEN upd[k] ELSE base[k]]

\* merge_plan on the "rules" level: a rule present on both sides is merged
MergeRules(base, upd) ==
    [r \in (DOMAIN base) \cup (DOMAIN upd) |->
        IF r \in DOMAIN upd
        THEN (IF r \in DOMAIN base THEN MergeLeaves(base[r], upd[r]) ELSE upd[r])
        ELSE base[r]]

\* repair/plan.py merge_plan(DEFAULT_PLAN, plan): "rules" is the one key
\* whose value is a dict on both sides
merge_plan(base, upd) ==
    IF DOMAIN upd = {} THEN base
    ELSE [k \in (DOMAIN base) \cup (DOMAIN upd) |->
            IF k \in DOMAIN upd
            THEN (IF k = "rules" /\ k \in DOMAIN base
                  THEN MergeRules(base[k], upd[k]) ELSE upd[k])
            ELSE base[k]]

\* str.lower on the action strings of the model
Lower(s) ==
    CASE s = "OFF" -> "off"
      [] s = "Disabled" -> "disabled"
      [] OTHER -> s

\* rule_cfg.get("action", "").lower() in ("skip", "disabled", "off")
DisabledAlways(rule_cfg) == FALSE     \* mutant: the plan cannot disable a rule

Disabled(rule_cfg) ==
    Lower(Get(rule_cfg, "action", "")) \in {"skip", "disabled", "off"}

\* the three lists of the pass and the history of the fixers called
NoEntries == [applied |-> <<>>, skipped |-> <<>>, waived |-> <<>>]

Skip(lists, rule_id, reason) ==
    [lists EXCEPT !.skipped = Append(@, [rule |-> rule_id, reason |-> reason])]

\* mutant: a fixer that returns is always listed under applied
ClassifyAlwaysApplied(lists, rule_id, result) ==
    [lists EXCEPT !.applied = Append(@, [rule |-> rule_id, count |-> result.applied,
                                         notes |-> result.notes])]

\* __init__.py 105-113: the entry made for a fixer that returned `result`
Classify(lists, rule_id, result) ==
    LET a == result.applied
        w == result.waived
        n == result.notes
    IN  IF a > 0
        THEN [lists EXCEPT !.applied = Append(@, [rule |-> rule_id, count |-> a, notes |-> n])]
        ELSE IF w > 0
        THEN [lists EXCEPT !.waived = Append(@, [rule |-> rule_id, count |-> w, notes |-> n])]
        ELSE Skip(lists, rule_id, "no-op")

\* __init__.py 103-113: the state of the pass after the fixer of rule_id was
\* called on st.mesh and ended as r.  st holds the in-memory mesh, the three
\* lists, the calls made to fixers (rule id and what the fixer returned) and
\* the exception that ended the loop, if any.
Called(st, rule_id, r) ==
    LET call == [rule |-> rule_id, before |-> st.mesh, after |-> r.mesh,
                 err |-> r.err,
                 applied |-> IF r.err = None THEN r.result.applied ELSE 0,
                 waived |-> IF r.err = None THEN r.result.waived ELSE 0]
    IN  IF r.err # None
        THEN [st EXCEPT !.mesh = r.mesh, !.err = r.err, !.invoked = Append(@, call)]
        ELSE [st EXCEPT !.mesh = r.mesh,
                        !.lists = Classify(@, rule_id, r.result),
                        !.invoked = Append(@, call)]

\* __init__.py 84-113: one iteration of the loop, for the k-th rule of ORDER
RepairStep(st, cfg, findings, k) ==
    LET rule_id == ORDER[k]
        rule_cfg == Get(Get(cfg, "rules", EmptyDict), rule_id, EmptyDict)
        rules == Get(findings, "rules", EmptyDict)
    IN  IF Disabled(rule_cfg)
        THEN [st EXCEPT !.lists = Skip(@, rule_id, "disabled by plan")]
        ELSE IF rule_id \notin DOMAIN rules \/ DOMAIN rules[rule_id] = {}
        THEN [st EXCEPT !.lists = Skip(@, rule_id, "no finding for rule")]
        ELSE Called(st, rule_id, FIXERS(rule_id, st.mesh, rules[rule_id], rule_cfg))

\* __init__.py 83-113: the loop over ORDER from position k on; an exception
\* raised by a fixer ends it
RECURSIVE RepairLoop(_, _, _, _)
RepairLoop(st, cfg, findings, k) ==
    IF k > Len(ORDER) \/ st.err # None THEN st
    ELSE RepairLoop(RepairStep(st, cfg, findings, k), cfg, findings, k + 1)

\* Path(written_path).with_suffix(".repair.json")
LogPath(path) ==
    CASE path = "mesh.msh" -> "mesh.repair.json"
      [] path = "out.msh" -> "out.repair.json"

\* mutant: the write is attempted whether or not meshio can be imported
write_mesh_safe_unguarded(m, out_path, has_meshio) ==
    [writes |-> <<[path |-> out_path, tris |-> m.tris, quads |-> m.quads]>>,
     ret |-> out_path, err |-> None]


\* ops.py write_mesh_safe: what is written where, or the RuntimeError
write_mesh_safe(m, out_path, has_meshio) ==
    IF ~has_meshio THEN [writes |-> <<>>, ret |-> None, err |-> "RuntimeError"]
    ELSE [writes |-> <<[path |-> out_path, tris |-> m.tris, quads |-> m.quads]>>,
          ret |-> out_path, err |-> None]

\* mutant: the mesh always goes back to the input path
OutPathAlwaysInput(out_path, msh_path) == msh_path

\* __init__.py 116: out_path = out_path or msh_path
OutPath(out_path, msh_path) == IF out_path = None THEN msh_path ELSE out_path


\* __init__.py 115-147: the end of run_repair, st being the state in which
\* the loop over ORDER ended
RepairEnd(st, cfg, msh_path, dry_run, out_path, has_meshio) ==
    LET out == OutPath(out_path, msh_path)
        report(path, log) ==
            [ok |-> TRUE, msh_path |-> path, applied |-> st.lists.applied,
             skipped |-> st.lists.skipped, waived |-> st.lists.waived, log |-> log]
        raised(e, w) ==
            [mesh |-> st.mesh, result |-> None, err |-> e, invoked |-> st.invoked, writes |-> w]
    IN  IF st.err # None THEN raised(st.err, <<>>)
        ELSE IF dry_run
        THEN [mesh |-> st.mesh, result |-> report(msh_path, None), err |-> None,
              invoked |-> st.invoked, writes |-> <<>>]
        ELSE LET w == write_mesh_safe(st.mesh, out, has_meshio)
             IN  IF w.err # None THEN raised(w.err, w.writes)
                 ELSE [mesh |-> st.mesh,
                       result |-> report(w.ret, LogPath(w.ret)),
                       err |-> None,
                       invoked |-> st.invoked,
                       writes |-> w.writes \o
                                  <<[path |-> LogPath(w.ret),
                                     log |-> [applied |-> st.lists.applied,
                                              skipped |-> st.lists.skipped,
                                              waived |-> st.lists.waived,
                                              plan |-> cfg]]>>]

\* __init__.py run_repair: [mesh, result, err, invoked, writes]; disk is the
\* mesh that the reader finds at msh_path
run_repair(msh_path, disk, findings, plan, dry_run, out_path, has_meshio) ==
    LET cfg == merge_plan(DEFAULT_PLAN, plan)
        start == [mesh |-> disk, lists |-> NoEntries, invoked |-> <<>>, err |-> None]
    IN  RepairEnd(RepairLoop(start, cfg, findings, 1), cfg,
                  msh_path, dry_run, out_path, has_meshio)

(***************************************************************************)
(* SpecRemove: remove_cells is applied to a mesh of up to MaxRemoveCells   *)
(* cells with an index list of up to MaxRemoveIdxs entries, in any order   *)
(* and with repetitions, drawn from -1 (numpy's last row) up to the number *)
(* of rows (one past the end).                                             *)
(***************************************************************************)
RemoveQuadCells == {<<0, 1, 2, 3>>, <<3, 2, 1, 0>>}

InitRemove ==
    /\ \E nt \in 0..MaxRemoveCells : \E nq \in 0..(MaxRemoveCells - nt) :
          \E t \in [1..nt -> MultiTriCells], q \in [1..nq -> RemoveQuadCells] :
              mesh = mesh_from_reader(t, q)
    /\ pre = mesh
    /\ op = "init"
    /\ arg = None
    /\ ret = None
    /\ registry = REGISTRY

DoRemove ==
    /\ op = "init"
    /\ \E kind \in Kinds, len \in 0..MaxRemoveIdxs :
          \E idxs \in [1..len -> (-1)..Len(Cells(mesh, kind))] :
              \E r \in {remove_cells(mesh, kind, idxs)} :
                  /\ mesh' = r.mesh
                  /\ arg' = [kind |-> kind, idxs |-> idxs]
                  /\ ret' = [ret |-> r.ret, err |-> r.err]
    /\ pre' = mesh
    /\ op' = "remove_cells"
    /\ UNCHANGED registry

NextRemove == DoRemove

SpecRemove == InitRemove /\ [][NextRemove]_vars


(***************************************************************************)
(* SpecRepair: one run_repair call on a mesh file of up to MaxRepairCells  *)
(* cells.  `pre` is the mesh read from msh_path, `mesh` the in-memory Mesh *)
(* when the call ends, `arg` the arguments and `ret` the outcome.          *)
(***************************************************************************)
RepairTriCells == {<<0, 1, 3>>, <<3, 1, 0>>}
RepairQuadCells == {<<0, 1, 2, 3>>, <<3, 2, 1, 0>>}

InitRepair ==
    /\ \E nt \in 0..MaxRepairCells : \E nq \in 0..(MaxRepairCells - nt) :
          \E t \in [1..nt -> RepairTriCells], q \in [1..nq -> RepairQuadCells] :
              mesh = mesh_from_reader(t, q)
    /\ pre = mesh
    /\ op = "init"
    /\ arg = None
    /\ ret = None
    /\ registry = REGISTRY

\* the action a plan gives the k-th rule of ORDER when it is not "skip":
\* one that leaves the rule enabled and the two other spellings that disable
OtherAction(k) == CASE k = 1 -> "keep" [] k = 2 -> "OFF" [] k = 3 -> "Disabled"

\* plan: None, an override of one rule's action, or every rule skipped
PlanArgs ==
    {EmptyDict}
    \cup {[rules |-> [r \in {ORDER[k]} |-> [action |-> a]]] :
             k \in 1..Len(ORDER), a \in {"skip"}}
    \cup {[rules |-> [r \in {ORDER[k]} |-> [action |-> OtherAction(k)]]] :
             k \in 1..Len(ORDER)}
    \cup {[rules |-> [r \in {ORDER[k] : k \in 1..Len(ORDER)} |-> [action |-> "skip"]]]}

\* what the checks report on mesh m for a fixable rule
RuleFinding(m, rule_id) ==
    CASE rule_id = "duplicate_elements" -> duplicate_elements(m)
      [] rule_id = "multiple_edges" -> multiple_edges(m)
      [] rule_id = "surface_orientation" -> surface_orientation(m)

\* findings: None, or "rules" with, per rule, no entry, an empty entry, or a
\* finding: the one the checks report on m and, for surface_orientation,
\* whose fixer reads the examples, also one that names index 0 of both kinds
FindingChoices(m, rule_id) ==
    {<<"absent", EmptyDict>>, <<"present", EmptyDict>>,
     <<"present", RuleFinding(m, rule_id)>>}
    \cup (IF rule_id = "surface_orientation"
          THEN {<<"present", [RuleFinding(m, rule_id) EXCEPT
                                 !.ok = FALSE, !.count = 2,
                                 !.examples = <<<<"tri", 0>>, <<"quad", 0>>>>]>>}
          ELSE {})

FindingsArgs(m) ==
    {EmptyDict}
    \cup {[rules |-> [r \in {ORDER[k] : k \in {j \in 1..3 : c[j][1] = "present"}} |->
                        LET k == CHOOSE j \in 1..3 : ORDER[j] = r IN c[k][2]]] :
            c \in FindingChoices(m, ORDER[1]) \X FindingChoices(m, ORDER[2])
                  \X FindingChoices(m, ORDER[3])}

\* <<dry_run, out_path, meshio importable>>
CallModes ==
    {<<TRUE, None, TRUE>>, <<TRUE, "out.msh", TRUE>>, <<TRUE, None, FALSE>>,
     <<FALSE, None, TRUE>>, <<FALSE, "out.msh", TRUE>>, <<FALSE, None, FALSE>>}

RunRepair ==
    /\ op = "init"
    /\ \E findings \in FindingsArgs(mesh), plan \in PlanArgs, mode \in CallModes :
          LET dry_run == mode[1]
              out_path == mode[2]
              has_meshio == mode[3]
          IN
          \E r \in {run_repair("mesh.msh", mesh, findings, plan, dry_run, out_path, has_meshio)} :
              /\ mesh' = r.mesh
              /\ arg' = [msh_path |-> "mesh.msh", findings |-> findings, plan |-> plan,
                         dry_run |-> dry_run, out_path |-> out_path,
                         has_meshio |-> has_meshio]
              /\ ret' = [result |-> r.result, err |-> r.err, invoked |-> r.invoked,
                         writes |-> r.writes]
    /\ pre' = mesh
    /\ op' = "run_repair"
    /\ UNCHANGED registry

NextRepair == RunRepair

SpecRepair == InitRepair /\ [][NextRepair]_vars

(***************************************************************************)
(* run_checks (Mesh/checks/__init__.py) and the rule registry              *)
(* (Mesh/checks/registry.py).                                              *)
(***************************************************************************)
\* registry.py RULES_ORDER
RULES_ORDER ==
    <<"surface_orientation", "negative_jacobians", "duplicate_elements", "multiple_edges",
      "nonmanifold", "overlapping_elements", "uncovered_faces", "missing_internal_faces",
      "missing_physical_groups", "bl_continuity">>
    \o WarnRules

\* checks/__init__.py DEFAULTS["enabled"]
DEFAULTS_enabled ==
    [rid \in Range(RULES_ORDER) |-> rid \notin {"overlapping_elements", "first_layer_height"}]

\* A config value is either a dict (its items) or None.
DictValue(items) == [dict |-> TRUE, items |-> items]
NoneValue == [dict |-> FALSE, items |-> EmptyDict]

\* checks/__init__.py DEFAULTS, the "enabled" part
DEFAULTS == [enabled |-> DictValue(DEFAULTS_enabled)]

\* checks/__init__.py _deep_merge(DEFAULTS, config): a dict under a key that
\* holds a dict is merged key by key, any other value replaces
_deep_merge(base, upd) ==
    IF DOMAIN upd = {} THEN base
    ELSE [k \in (DOMAIN base) \cup (DOMAIN upd) |->
            IF k \notin DOMAIN upd THEN base[k]
            ELSE IF upd[k].dict /\ k \in DOMAIN base /\ base[k].dict
            THEN (IF DOMAIN upd[k].items = {} THEN base[k]
                  ELSE DictValue(MergeLeaves(base[k].items, upd[k].items)))
            ELSE upd[k]]

\* mutant: an id the map does not mention counts as switched off
RECURSIVE FilterEnabledAbsentOff(_, _, _)
FilterEnabledAbsentOff(order, items, k) ==
    IF k > Len(order) THEN <<>>
    ELSE (IF Get(items, order[k], FALSE) THEN <<order[k]>> ELSE <<>>)
         \o FilterEnabledAbsentOff(order, items, k + 1)


\* [rid for rid in order[k:] if enabled_map.get(rid, True)]
RECURSIVE FilterEnabled(_, _, _)
FilterEnabled(order, items, k) ==
    IF k > Len(order) THEN <<>>
    ELSE (IF Get(items, order[k], TRUE) THEN <<order[k]>> ELSE <<>>)
         \o FilterEnabled(order, items, k + 1)

\* mutant: the rules are taken in the order of their registration
get_enabled_ids_as_registered(enabled_map) ==
    IF ~enabled_map.dict \/ DOMAIN enabled_map.items = {} THEN ErrorRules \o WarnRules
    ELSE FilterEnabled(ErrorRules \o WarnRules, enabled_map.items, 1)

\* registry.py get_enabled_ids
get_enabled_ids(enabled_map) ==
    IF ~enabled_map.dict \/ DOMAIN enabled_map.items = {} THEN RULES_ORDER
    ELSE FilterEnabled(RULES_ORDER, enabled_map.items, 1)

\* spec.fn(mv, thresholds, cache): the finding a rule function returns, as
\* built by the _finding of its module (errors.py: severity "error",
\* warnings.py: severity "warn").  The three rules modelled above are
\* computed on the mesh; of any other rule the orchestrator only sees the
\* verdict, which is `rid \notin fails`.  RuleSpec.fn is any callable: with
\* `stray` it returns its finding under another id and severity.
RuleFn(rid, m, fails, stray) ==
    CASE rid = "surface_orientation" -> surface_orientation(m)
      [] rid = "duplicate_elements" -> duplicate_elements(m)
      [] rid = "multiple_edges" -> multiple_edges(m)
      [] OTHER ->
           [Finding(rid, rid \notin fails, IF rid \in fails THEN 1 ELSE 0, <<>>, TRUE)
               EXCEPT !.id = IF stray THEN "stray_rule" ELSE rid,
                      !.severity = IF stray THEN "info"
                                   ELSE IF rid \in Range(WarnRules) THEN "warn"
                                   ELSE "error"]

\* mutant: the finding is stored as the rule function returned it
StoredAsReturned(finding, spec, rid) == finding

\* __init__.py 146-149: severity and id of the finding are overwritten with
\* those of the registry before it is stored
Stored(finding, spec, rid) == [finding EXCEPT !.severity = spec.severity, !.id = rid]

\* results[rid] = finding on a dict with insertion order `keys`
SetItem(acc, rid, finding) ==
    [results |-> [r \in (DOMAIN acc.results) \cup {rid} |->
                     IF r = rid THEN finding ELSE acc.results[r]],
     keys |-> IF rid \in DOMAIN acc.results THEN acc.keys ELSE Append(acc.keys, rid),
     calls |-> Append(acc.calls, rid)]

\* __init__.py 140-150: the loop over enabled_ids from position k on; acc
\* holds results (rule id -> finding), the insertion order of its keys and
\* the calls made so far
RECURSIVE ChecksLoop(_, _, _, _, _, _)
ChecksLoop(acc, enabled_ids, m, fails, stray, k) ==
    IF k > Len(enabled_ids) THEN acc
    ELSE LET rid == enabled_ids[k]
         IN  IF rid \notin DOMAIN REGISTRY
             THEN ChecksLoop(acc, enabled_ids, m, fails, stray, k + 1)
             ELSE ChecksLoop(SetItem(acc, rid,
                                     Stored(RuleFn(rid, m, fails, stray), REGISTRY[rid], rid)),
                             enabled_ids, m, fails, stray, k + 1)

\* mutant: a failing finding of any severity fails the run
OverallOkAnySeverity(results) == \A rid \in DOMAIN results : results[rid].ok

\* __init__.py 152-157: ok is False iff some result of an "error" rule is
\* not ok
OverallOk(results) ==
    \A rid \in DOMAIN results :
        ~(REGISTRY[rid].severity = "error" /\ ~Get(results[rid], "ok", FALSE))

\* __init__.py run_checks on the mesh m found at msh_path; `calls` lists
\* build_mesh_view, precompute_cache and the rule functions in call order
run_checks(m, config, fails, stray) ==
    LET cfg == _deep_merge(DEFAULTS, config)
        built == <<"build_mesh_view", "precompute_cache">>
        enabled_ids == get_enabled_ids(Get(cfg, "enabled", NoneValue))
        acc == ChecksLoop([results |-> EmptyDict, keys |-> <<>>, calls |-> built],
                          enabled_ids, m, fails, stray, 1)
    IN  [ok |-> OverallOk(acc.results),
         rules |-> acc.results,
         keys |-> acc.keys,
         meta |-> [n_tris |-> Len(m.tris), n_quads |-> Len(m.quads),
                   enabled |-> Get(cfg, "enabled", DictValue(EmptyDict))],
         calls |-> acc.calls]

(***************************************************************************)
(* SpecChecks: one run_checks call on a mesh file of up to MaxCheckCells   *)
(* cells, in which at most MaxFailing of the rules without a model of      *)
(* their own fail.                                                         *)
(***************************************************************************)
InitChecks ==
    /\ \E nt \in 0..MaxCheckCells : \E nq \in 0..(MaxCheckCells - nt) :
          \E t \in [1..nt -> RepairTriCells], q \in [1..nq -> RepairQuadCells] :
              mesh = mesh_from_reader(t, q)
    /\ pre = mesh
    /\ op = "init"
    /\ arg = None
    /\ ret = None
    /\ registry = REGISTRY

OracleRules ==
    Range(RULES_ORDER) \ {"surface_orientation", "duplicate_elements", "multiple_edges"}

FailingSets == {F \in SUBSET OracleRules : Cardinality(F) <= MaxFailing}

\* config: None, {"enabled": {}}, {"enabled": None}, or one entry of the
\* enabled map set to True or False (a registered id or an unknown one)
ConfigArgs ==
    {EmptyDict, [enabled |-> DictValue(EmptyDict)], [enabled |-> NoneValue]}
    \cup {[enabled |-> DictValue([r \in {rid} |-> b])] :
             rid \in Range(RULES_ORDER) \cup {"unknown_rule"}, b \in BOOLEAN}

\* whether the rule functions return a foreign id and severity: tried with
\* no configuration and with every rule enabled
StrayArgs(config) ==
    IF config \in {EmptyDict, [enabled |-> NoneValue]} THEN BOOLEAN ELSE {FALSE}

RunChecks ==
    /\ op = "init"
    /\ \E config \in ConfigArgs, fails \in FailingSets : \E stray \in StrayArgs(config) :
          \E r \in {run_checks(mesh, config, fails, stray)} :
              /\ arg' = [config |-> config, fails |-> fails, stray |-> stray]
              /\ ret' = r
    /\ op' = "run_checks"
    /\ UNCHANGED <<mesh, pre, registry>>

NextChecks == RunChecks

SpecChecks == InitChecks /\ [][NextChecks]_vars

(***************************************************************************)
(* SpecEnabled: get_enabled_ids is called on an enabled-map: None, {} or a *)
(* map that gives a flag to some of a few rule ids, registered or not.     *)
(***************************************************************************)
EnabledKeys ==
    {"surface_orientation", "missing_physical_groups", "bl_continuity", "unknown_rule"}

GetEnabledIds ==
    /\ op = "init"
    /\ \E K \in SUBSET EnabledKeys : \E items \in [K -> BOOLEAN] :
          \E em \in {NoneValue, DictValue(items)} :
              /\ arg' = em
              /\ ret' = get_enabled_ids(em)
    /\ op' = "get_enabled_ids"
    /\ UNCHANGED <<mesh, pre, registry>>

NextEnabled == GetEnabledIds

SpecEnabled == InitChecks /\ [][NextEnabled]_vars


(***************************************************************************)
(* SpecRegistry: RuleSpecs are registered with _add, one after another, on *)
(* the empty registry of registry.py l.62 or on the registry after import. *)
(***************************************************************************)
\* registry.py RuleSpec (without fn)
RuleSpec(id, severity, fixable) == [id |-> id, severity |-> severity, fixable |-> fixable]

\* mutant: a registration replaces an entry of the same id
_add_replacing(reg, spec) ==
    IF spec.severity \notin {"error", "warn"}
    THEN [registry |-> reg, err |-> "ValueError"]
    ELSE [registry |-> [r \in (DOMAIN reg) \cup {spec.id} |->
                           IF r = spec.id THEN spec ELSE reg[r]],
          err |-> None]

\* registry.py _add on the registry reg
_add(reg, spec) ==
    IF spec.id \in DOMAIN reg
    THEN [registry |-> reg, err |-> "ValueError"]
    ELSE IF spec.severity \notin {"error", "warn"}
    THEN [registry |-> reg, err |-> "ValueError"]
    ELSE [registry |-> [r \in (DOMAIN reg) \cup {spec.id} |->
                           IF r = spec.id THEN spec ELSE reg[r]],
          err |-> None]

InitRegistry ==
    /\ mesh = mesh_from_reader(<<>>, <<>>)
    /\ pre = mesh
    /\ op = "init"
    /\ arg = None
    /\ ret = None
    /\ registry \in {EmptyDict, REGISTRY}

RuleSpecArgs ==
    {RuleSpec(id, severity, fixable) :
        id \in {"surface_orientation", "bl_continuity", "custom_rule"},
        severity \in {"error", "warn", "info"},
        fixable \in BOOLEAN}

Add ==
    /\ \E spec \in RuleSpecArgs :
          \E r \in {_add(registry, spec)} :
              /\ registry' = r.registry
              /\ arg' = spec
              /\ ret' = [err |-> r.err]
    /\ op' = "_add"
    /\ UNCHANGED <<mesh, pre>>

NextRegistry == Add

SpecRegistry == InitRegistry /\ [][NextRegistry]_vars


(***************************************************************************)
(* The deep merge of repair/plan.py merge_plan and of checks/__init__.py   *)
(* _deep_merge (the same code), on a heap of dict objects: heap[n] is the  *)
(* dict with identity n, a function from keys to values, and a value is a  *)
(* reference to a dict or a leaf (a string, a bool, None by its repr).     *)
(***************************************************************************)
Leaf(s) == [dict |-> FALSE, at |-> 0, leaf |-> s]
Ref(n) == [dict |-> TRUE, at |-> n, leaf |-> ""]

\* d[k] = v on the dict d
Put(d, k, v) == [x \in (DOMAIN d) \cup {k} |-> IF x = k THEN v ELSE d[x]]

\* heap[n] = d
SetAt(h, n, d) == [h EXCEPT ![n] = d]

\* the keys of the model, in the order in which a dict is iterated
KeyOrder ==
    <<"rules", "verify", "duplicate_elements", "multiple_edges", "action", "prefer">>

InDict(d, k) == k \in DOMAIN d

\* d.keys() as a list
KeysOf(d) == SelectSeq(KeyOrder, LAMBDA k : InDict(d, k))

\* mutant: the copy is the object itself
deepcopy_shared(h, v) == [heap |-> h, v |-> v]

\* copy.deepcopy(v): a leaf is itself, a dict is a new object whose values
\* are copies
RECURSIVE deepcopy(_, _), CopyItems(_, _, _, _, _)
deepcopy(h, v) ==
    IF ~v.dict THEN [heap |-> h, v |-> v]
    ELSE LET r == CopyItems(h, h[v.at], KeysOf(h[v.at]), 1, EmptyDict)
         IN  [heap |-> Append(r.heap, r.items), v |-> Ref(Len(r.heap) + 1)]

CopyItems(h, d, keys, i, acc) ==
    IF i > Len(keys) THEN [heap |-> h, items |-> acc]
    ELSE LET c == deepcopy(h, d[keys[i]])
         IN  CopyItems(c.heap, d, keys, i + 1, Put(acc, keys[i], c.v))

\* `not upd`: None or a dict without keys
Falsy(h, v) == IF v.dict THEN DOMAIN h[v.at] = {} ELSE v.leaf = "None"

\* out[k] = v on the dict object `out`
Assign(r, out, k) == SetAt(r.heap, out.at, Put(r.heap[out.at], k, r.v))

\* plan.py 41-53 merge_plan(base, upd) and __init__.py 85-97
\* _deep_merge(base, upd): [heap, v] with v the returned dict
RECURSIVE DeepMerge(_, _, _), MergeLoop(_, _, _, _, _)
DeepMerge(h, base, upd) ==
    IF Falsy(h, upd) THEN deepcopy(h, base)
    ELSE LET c == deepcopy(h, base)
         IN  MergeLoop(c.heap, c.v, upd, KeysOf(h[upd.at]), 1)

\* the loop `for k, v in upd.items()` from the i-th key on
MergeLoop(h, out, upd, keys, i) ==
    IF i > Len(keys) THEN [heap |-> h, v |-> out]
    ELSE LET k == keys[i]
             v == h[upd.at][k]
             cur == h[out.at]
         IN  IF v.dict /\ k \in DOMAIN cur /\ cur[k].dict
             THEN MergeLoop(Assign(DeepMerge(h, cur[k], v), out, k), out, upd, keys, i + 1)
             ELSE MergeLoop(Assign(deepcopy(h, v), out, k), out, upd, keys, i + 1)

\* the nested value behind v: a dict with its items, or a leaf
RECURSIVE TreeOf(_, _)
TreeOf(h, v) ==
    IF v.dict
    THEN [dict |-> TRUE, items |-> [k \in DOMAIN h[v.at] |-> TreeOf(h, h[v.at][k])],
          leaf |-> ""]
    ELSE [dict |-> FALSE, items |-> EmptyDict, leaf |-> v.leaf]

\* the objects reachable from v
RECURSIVE Reach(_, _)
Reach(h, v) ==
    IF v.dict
    THEN {v.at} \cup UNION {Reach(h, h[v.at][k]) : k \in DOMAIN h[v.at]}
    ELSE {}

\* the nested value `tree` built on the heap: [heap, v]
RECURSIVE Alloc(_, _), AllocItems(_, _, _, _, _)
Alloc(h, tree) ==
    IF ~tree.dict THEN [heap |-> h, v |-> Leaf(tree.leaf)]
    ELSE LET r == AllocItems(h, tree.items, KeysOf(tree.items), 1, EmptyDict)
         IN  [heap |-> Append(r.heap, r.items), v |-> Ref(Len(r.heap) + 1)]

AllocItems(h, items, keys, i, acc) ==
    IF i > Len(keys) THEN [heap |-> h, items |-> acc]
    ELSE LET c == Alloc(h, items[keys[i]])
         IN  AllocItems(c.heap, items, keys, i + 1, Put(acc, keys[i], c.v))

(***************************************************************************)
(* SpecMerge: an override is merged into a base, and then once more into   *)
(* the result.  The base is a cut of DEFAULT_PLAN, a dict whose "rules" is *)
(* None, or {}; the override is None or a dict of up to three levels.      *)
(***************************************************************************)
LeafTree(s) == [dict |-> FALSE, items |-> EmptyDict, leaf |-> s]
DictTree(items) == [dict |-> TRUE, items |-> items, leaf |-> ""]

BaseTrees ==
    {DictTree([rules |-> DictTree([duplicate_elements |->
                                       DictTree([action |-> LeafTree("remove"),
                                                 prefer |-> LeafTree("first")]),
                                   multiple_edges |->
                                       DictTree([action |-> LeafTree("dedupe")])]),
               verify |-> LeafTree("False")]),
     DictTree([rules |-> LeafTree("None"), verify |-> LeafTree("False")]),
     DictTree(EmptyDict)}

\* the dicts over some of the keys K with values from V
DictsOver(K, V) == UNION {{DictTree(items) : items \in [J -> V]} : J \in SUBSET K}

\* the overrides: a value is a leaf or a dict; a rule's config has the keys
\* action and prefer, "rules" has two of the rule ids, a plan has "rules"
\* and "verify"
RuleCfgArgs == {LeafTree("skip")} \cup DictsOver({"action", "prefer"}, {LeafTree("skip")})
RulesArgs ==
    {LeafTree("skip")} \cup DictsOver({"duplicate_elements", "multiple_edges"}, RuleCfgArgs)
UpdArgs == {LeafTree("None")} \cup DictsOver({"rules", "verify"}, RulesArgs)

InitMerge ==
    /\ mesh = mesh_from_reader(<<>>, <<>>)
    /\ pre = mesh
    /\ op = "init"
    /\ arg = None
    /\ ret = None
    /\ registry = REGISTRY

Merge ==
    /\ op = "init"
    /\ \E bt \in BaseTrees, ut \in UpdArgs :
          \E a \in {Alloc(<<>>, bt)} : \E b \in {Alloc(a.heap, ut)} :
              \E r \in {DeepMerge(b.heap, a.v, b.v)} :
                  \E again \in {DeepMerge(r.heap, r.v, b.v)} :
                      /\ arg' = [heap |-> b.heap, base |-> a.v, upd |-> b.v]
                      /\ ret' = [heap |-> r.heap, out |-> r.v,
                                 heap2 |-> again.heap, again |-> again.v]
    /\ op' = "merge"
    /\ UNCHANGED <<mesh, pre, registry>>

NextMerge == Merge

SpecMerge == InitMerge /\ [][NextMerge]_vars


\* mutant: the quads are numbered before the triangles
_build_unified_cells_quads_first(m) ==
    [cid \in 0..(Len(m.tris) + Len(m.quads) - 1) |->
        IF cid < Len(m.quads) THEN m.quads[cid + 1] ELSE m.tris[cid - Len(m.quads) + 1]]


(***************************************************************************)
(* The check cache (Mesh/checks/helpers.py precompute_cache).  Unified     *)
(* cell ids and the keys of cell_edges are 0-based as in the source; a     *)
(* dict of lists is a function to sequences.                               *)
(***************************************************************************)
\* helpers.py _build_unified_cells: all tris, then all quads
_build_unified_cells(m) ==
    [cid \in 0..(Len(m.tris) + Len(m.quads) - 1) |->
        IF cid < Len(m.tris) THEN m.tris[cid + 1] ELSE m.quads[cid - Len(m.tris) + 1]]

\* helpers.py _build_cell_edges: hash_edge of the consecutive node pairs
_build_cell_edges(unified) ==
    [cid \in DOMAIN unified |->
        [i \in 1..Len(unified[cid]) |->
            Edge(unified[cid][i], unified[cid][(i % Len(unified[cid])) + 1])]]

\* the list built by `d.setdefault(key, []).append(cid)` for every entry of
\* table[cid] that equals key, over the cells cid, cid + 1, ...
RECURSIVE Listed(_, _, _)
Listed(table, key, cid) ==
    IF cid \notin DOMAIN table THEN <<>>
    ELSE [i \in 1..Cardinality({p \in 1..Len(table[cid]) : table[cid][p] = key}) |-> cid]
         \o Listed(table, key, cid + 1)

\* helpers.py _build_edge_cells (on cell_edges) and _build_node_cells (on
\* the unified cells): key -> the cells that list it
Inverted(table) ==
    [key \in UNION {{table[cid][p] : p \in 1..Len(table[cid])} : cid \in DOMAIN table} |->
        Listed(table, key, 0)]

_build_edge_cells(cell_edges) == Inverted(cell_edges)

_build_node_cells(unified) == Inverted(unified)

\* helpers.py _maybe_boundary_edges: None; a known set is [known |-> TRUE]
_maybe_boundary_edges(m) == [known |-> FALSE, edges |-> {}]

\* helpers.py precompute_cache, the topological tables
precompute_cache(m) ==
    LET unified == _build_unified_cells(m)
        cell_edges == _build_cell_edges(unified)
    IN  [unified_cells |-> unified,
         cell_edges |-> cell_edges,
         edge_cells |-> _build_edge_cells(cell_edges),
         node_cells |-> _build_node_cells(unified),
         boundary_edges |-> _maybe_boundary_edges(m)]

\* the keys of edge_cells in insertion order: the edges of cell 0 in cycle
\* order, then the new edges of cell 1, ...
RECURSIVE KeysInOrder(_, _, _, _)
KeysInOrder(cell_edges, cid, p, seen) ==
    IF cid \notin DOMAIN cell_edges THEN <<>>
    ELSE IF p > Len(cell_edges[cid]) THEN KeysInOrder(cell_edges, cid + 1, 1, seen)
    ELSE IF cell_edges[cid][p] \in seen THEN KeysInOrder(cell_edges, cid, p + 1, seen)
    ELSE <<cell_edges[cid][p]>>
         \o KeysInOrder(cell_edges, cid, p + 1, seen \cup {cell_edges[cid][p]})

\* [e for e in keys[k:] if e in keep]
RECURSIVE Selected(_, _, _)
Selected(keys, keep, k) ==
    IF k > Len(keys) THEN <<>>
    ELSE (IF keys[k] \in keep THEN <<keys[k]>> ELSE <<>>) \o Selected(keys, keep, k + 1)

\* the dict literal the rules of errors.py return (details by its one key)
RuleFinding2(rule_id, bad, details) ==
    [id |-> rule_id, severity |-> "error", ok |-> Len(bad) = 0, count |-> Len(bad),
     examples |-> Take(bad, RULE_EXAMPLES_CAP), details |-> details, fixable |-> TRUE]

\* errors.py uncovered_faces
uncovered_faces(cache) ==
    IF ~cache.boundary_edges.known THEN RuleFinding2("uncovered_faces", <<>>, "skipped")
    ELSE RuleFinding2("uncovered_faces",
            Selected(KeysInOrder(cache.cell_edges, 0, 1, {}),
                     {e \in DOMAIN cache.edge_cells :
                         Len(cache.edge_cells[e]) = 1 /\ e \notin cache.boundary_edges.edges},
                     1),
            "note")

\* mutant: a missing boundary set is read as the empty set
missing_internal_faces_unknown_as_empty(cache) ==
    RuleFinding2("missing_internal_faces",
        Selected(KeysInOrder(cache.cell_edges, 0, 1, {}),
                 {e \in DOMAIN cache.edge_cells :
                     e \notin cache.boundary_edges.edges /\ Len(cache.edge_cells[e]) # 2},
                 1),
        "note")

\* errors.py missing_internal_faces (examples by their edge)
missing_internal_faces(cache) ==
    IF ~cache.boundary_edges.known
    THEN RuleFinding2("missing_internal_faces", <<>>, "skipped")
    ELSE RuleFinding2("missing_internal_faces",
            Selected(KeysInOrder(cache.cell_edges, 0, 1, {}),
                     {e \in DOMAIN cache.edge_cells :
                         e \notin cache.boundary_edges.edges /\ Len(cache.edge_cells[e]) # 2},
                     1),
            "note")

\* errors.py nonmanifold, high_nodes: len(cells) > mean + 5 * std and >= 8,
\* squared to stay in the integers (n * len > S and
\* (n * len - S)^2 > 25 * (n * S2 - S^2))
HighNodes(node_cells) ==
    LET n == Cardinality(DOMAIN node_cells)
        Sum[S \in SUBSET DOMAIN node_cells] ==
            IF S = {} THEN 0
            ELSE LET x == CHOOSE y \in S : TRUE IN Len(node_cells[x]) + Sum[S \ {x}]
        Sq[S \in SUBSET DOMAIN node_cells] ==
            IF S = {} THEN 0
            ELSE LET x == CHOOSE y \in S : TRUE
                 IN  Len(node_cells[x]) * Len(node_cells[x]) + Sq[S \ {x}]
        s1 == Sum[DOMAIN node_cells]
        s2 == Sq[DOMAIN node_cells]
    IN  {x \in DOMAIN node_cells :
            /\ Len(node_cells[x]) >= 8
            /\ n * Len(node_cells[x]) > s1
            /\ (n * Len(node_cells[x]) - s1) * (n * Len(node_cells[x]) - s1)
                  > 25 * (n * s2 - s1 * s1)}

\* errors.py nonmanifold: the edges with more than two listed cells
nonmanifold(cache) ==
    LET edges_gt2 == Selected(KeysInOrder(cache.cell_edges, 0, 1, {}),
                              {e \in DOMAIN cache.edge_cells : Len(cache.edge_cells[e]) > 2},
                              1)
        high == Cardinality(HighNodes(cache.node_cells))
    IN  [id |-> "nonmanifold", severity |-> "error",
         ok |-> Len(edges_gt2) = 0 /\ high = 0,
         count |-> Len(edges_gt2) + high,
         edges_gt2 |-> edges_gt2,
         fixable |-> TRUE]

(***************************************************************************)
(* SpecCache: the cache of a mesh of up to MaxCacheCells cells is built,   *)
(* or a rule that reads the cache is run on it with a boundary-edge set    *)
(* that is unknown, empty or edges of the first cell.                      *)
(***************************************************************************)
\* a triangle, its reversal, a triangle on another node set, and a cell
\* that names node 0 twice
CacheTriCells == {<<0, 1, 3>>, <<3, 1, 0>>, <<1, 2, 3>>, <<0, 1, 0>>}
CacheQuadCells == {<<0, 1, 2, 3>>}

InitCache ==
    /\ \E nt \in 0..MaxCacheCells : \E nq \in 0..(MaxCacheCells - nt) :
          \E t \in [1..nt -> CacheTriCells], q \in [1..nq -> CacheQuadCells] :
              mesh = mesh_from_reader(t, q)
    /\ pre = mesh
    /\ op = "init"
    /\ arg = None
    /\ ret = None
    /\ registry = REGISTRY

BuildCache ==
    /\ op = "init"
    /\ ret' = precompute_cache(mesh)
    /\ arg' = None
    /\ op' = "precompute_cache"
    /\ UNCHANGED <<mesh, pre, registry>>

\* the cache handed to a rule: as built, or with a known boundary-edge set
CacheArgs(m) ==
    LET cache == precompute_cache(m)
    IN  {cache, [cache EXCEPT !.boundary_edges = [known |-> TRUE, edges |-> {}]]}
        \cup {[cache EXCEPT !.boundary_edges =
                  [known |-> TRUE, edges |-> {cache.cell_edges[0][p] : p \in 1..3}]] :
              c \in {0} \cap DOMAIN cache.cell_edges}

RunCacheRule(name, cache, finding) ==
    /\ op = "init"
    /\ arg' = cache
    /\ ret' = finding
    /\ op' = name
    /\ UNCHANGED <<mesh, pre, registry>>

RunUncoveredFaces ==
    \E cache \in CacheArgs(mesh) : RunCacheRule("uncovered_faces", cache, uncovered_faces(cache))

RunMissingInternalFaces ==
    \E cache \in CacheArgs(mesh) :
        RunCacheRule("missing_internal_faces", cache, missing_internal_faces(cache))

RunNonmanifold ==
    \E cache \in {precompute_cache(mesh)} :
        RunCacheRule("nonmanifold", cache, nonmanifold(cache))

NextCache == BuildCache \/ RunUncoveredFaces \/ RunMissingInternalFaces \/ RunNonmanifold

SpecCache == InitCache /\ [][NextCache]_vars


(***************************************************************************)
(* checks/kernels.py and errors.py overlapping_elements.  Coordinates are  *)
(* integers, so a comparison with eps (1e-12, 1e-14) is one with 0.  A     *)
(* point is <<x, y, k>> for (x/k, y/k): a node has k = 1, the centroid of  *)
(* a cell of k nodes is the sum of its nodes over k.                       *)
(***************************************************************************)
\* mv.points of the overlap checks: a large triangle 0 1 2, node 3 closing
\* the square, a small triangle 4 5 6 inside, node 7 to the right
OverlapPoints == [n \in 0..7 |->
    CASE n = 0 -> <<0, 0, 1>>
      [] n = 1 -> <<4, 0, 1>>
      [] n = 2 -> <<0, 4, 1>>
      [] n = 3 -> <<4, 4, 1>>
      [] n = 4 -> <<1, 1, 1>>
      [] n = 5 -> <<2, 1, 1>>
      [] n = 6 -> <<1, 2, 1>>
      [] OTHER -> <<8, 0, 1>>]

\* kernels.py segments_intersect, orient
orient(a, b, c) == (b[1] - a[1]) * (c[2] - a[2]) - (b[2] - a[2]) * (c[1] - a[1])

\* kernels.py segments_intersect, on_segment
on_segment(u, v, w) ==
    /\ Min2(u[1], v[1]) <= w[1] /\ w[1] <= Max2(u[1], v[1])
    /\ Min2(u[2], v[2]) <= w[2] /\ w[2] <= Max2(u[2], v[2])

\* kernels.py segments_intersect: touching counts
segments_intersect(p, q, r, s) ==
    LET o1 == orient(p, q, r)
        o2 == orient(p, q, s)
        o3 == orient(r, s, p)
        o4 == orient(r, s, q)
    IN  \/ (o1 * o2 < 0 /\ o3 * o4 < 0)
        \/ (o1 = 0 /\ on_segment(p, q, r))
        \/ (o2 = 0 /\ on_segment(p, q, s))
        \/ (o3 = 0 /\ on_segment(r, s, p))
        \/ (o4 = 0 /\ on_segment(r, s, q))

\* kernels.py point_in_triangle: u, v, w >= 0 with den cleared
point_in_triangle(P, a, b, c) ==
    LET k   == P[3]
        v0x == c[1] - a[1]
        v0y == c[2] - a[2]
        v1x == b[1] - a[1]
        v1y == b[2] - a[2]
        v2x == P[1] - k * a[1]
        v2y == P[2] - k * a[2]
        den == v0x * v1y - v0y * v1x
        Nu  == v2x * v1y - v2y * v1x
        Nv  == v2x * v0y - v2y * v0x
    IN  /\ den # 0
        /\ Nu * den >= 0
        /\ (0 - Nv) * den >= 0
        /\ (k * den - Nu + Nv) * den >= 0

\* kernels.py point_in_quad: triangles (0,1,2) and (0,2,3)
point_in_quad(P, Q) ==
    \/ point_in_triangle(P, Q[1], Q[2], Q[3])
    \/ point_in_triangle(P, Q[1], Q[3], Q[4])

\* pts[conn]
CoordsOf(pts, conn) == [k \in 1..Len(conn) |-> pts[conn[k]]]

\* helpers.py _bbox_xy: (minx, miny, maxx, maxy)
_bbox_xy(coords) ==
    LET xs == {coords[k][1] : k \in 1..Len(coords)}
        ys == {coords[k][2] : k \in 1..Len(coords)}
    IN  <<SetMin(xs), SetMin(ys), 0 - SetMin({0 - x : x \in xs}), 0 - SetMin({0 - y : y \in ys})>>

\* helpers.py _build_cell_bboxes
_build_cell_bboxes(pts, unified) ==
    [cid \in DOMAIN unified |-> _bbox_xy(CoordsOf(pts, unified[cid]))]

\* helpers.py precompute_cache, _neighbors: j > cid whose box overlaps
_neighbors(cell_bboxes, cid) ==
    LET a == cell_bboxes[cid]
    IN  {j \in DOMAIN cell_bboxes :
            /\ j > cid
            /\ ~(\/ a[3] < cell_bboxes[j][1] \/ cell_bboxes[j][3] < a[1]
                 \/ a[4] < cell_bboxes[j][2] \/ cell_bboxes[j][4] < a[2])}

\* errors.py overlapping_elements, _centroid_coords
RECURSIVE SumCoords(_, _)
SumCoords(P, k) ==
    IF k = 0 THEN <<0, 0>>
    ELSE LET r == SumCoords(P, k - 1) IN <<r[1] + P[k][1], r[2] + P[k][2]>>

_centroid_coords(pts, conn) ==
    LET s == SumCoords(CoordsOf(pts, conn), Len(conn)) IN <<s[1], s[2], Len(conn)>>

\* errors.py overlapping_elements, _share_edge
_share_edge(cell_edges, i, j) == Range(cell_edges[i]) \cap Range(cell_edges[j]) # {}

\* errors.py overlapping_elements, the edge-edge test of two cells
edge_hit(pts, ci, cj) ==
    \E s \in 1..Len(ci), t \in 1..Len(cj) :
        segments_intersect(pts[ci[s]], pts[ci[(s % Len(ci)) + 1]],
                           pts[cj[t]], pts[cj[(t % Len(cj)) + 1]])

\* errors.py overlapping_elements, the containment test of two cells
PointInCell(P, Q) ==
    IF Len(Q) = 3 THEN point_in_triangle(P, Q[1], Q[2], Q[3]) ELSE point_in_quad(P, Q)

inside(pts, ci, cj) ==
    \/ PointInCell(_centroid_coords(pts, ci), CoordsOf(pts, cj))
    \/ PointInCell(_centroid_coords(pts, cj), CoordsOf(pts, ci))

\* the candidate pairs (i, j) in the order of the two loops
RECURSIVE PairsFrom(_, _, _)
PairsFrom(n, i, j) ==
    IF i >= n THEN <<>>
    ELSE IF j >= n THEN PairsFrom(n, i + 1, i + 2)
    ELSE <<<<i, j>>>> \o PairsFrom(n, i, j + 1)

\* mutant: pairs that share an edge are tested like any other pair
overlaps_with_adjacent(pts, cache) ==
    LET unified == cache.unified_cells
        boxes   == _build_cell_bboxes(pts, unified)
        Hit(pr) ==
            /\ pr[2] \in _neighbors(boxes, pr[1])
            /\ \/ edge_hit(pts, unified[pr[1]], unified[pr[2]])
               \/ inside(pts, unified[pr[1]], unified[pr[2]])
    IN  SelectSeq(PairsFrom(Cardinality(DOMAIN unified), 0, 1), Hit)

\* errors.py overlapping_elements, the list overlaps
overlaps(pts, cache) ==
    LET unified == cache.unified_cells
        boxes   == _build_cell_bboxes(pts, unified)
        Hit(pr) ==
            /\ pr[2] \in _neighbors(boxes, pr[1])
            /\ ~_share_edge(cache.cell_edges, pr[1], pr[2])
            /\ \/ edge_hit(pts, unified[pr[1]], unified[pr[2]])
               \/ inside(pts, unified[pr[1]], unified[pr[2]])
    IN  SelectSeq(PairsFrom(Cardinality(DOMAIN unified), 0, 1), Hit)

\* errors.py overlapping_elements (the cache always has a spatial grid)
overlapping_elements(pts, cache) ==
    LET found == overlaps(pts, cache)
    IN  [id |-> "overlapping_elements", severity |-> "error", ok |-> found = <<>>,
         count |-> Len(found), examples |-> Take(found, 20), details |-> "note",
         fixable |-> TRUE]

(***************************************************************************)
(* SpecOverlap: overlapping_elements is run on the cache of a mesh of up   *)
(* to MaxOverlapCells cells over OverlapPoints.                            *)
(***************************************************************************)
\* the large triangle, the small one inside it, the one across edge (1, 2)
\* and the one that meets the large triangle in node 1 alone
OverlapTriCells == {<<0, 1, 2>>, <<4, 5, 6>>, <<1, 3, 2>>, <<1, 7, 3>>}
\* the square 0 1 3 2
OverlapQuadCells == {<<0, 1, 3, 2>>}

InitOverlap ==
    /\ \E nt \in 0..MaxOverlapCells : \E nq \in 0..(MaxOverlapCells - nt) :
          \E t \in [1..nt -> OverlapTriCells], q \in [1..nq -> OverlapQuadCells] :
              mesh = mesh_from_reader(t, q)
    /\ pre = mesh
    /\ op = "init"
    /\ arg = None
    /\ ret = None
    /\ registry = REGISTRY

RunOverlappingElements ==
    \E cache \in {precompute_cache(mesh)} :
        RunCacheRule("overlapping_elements", cache,
                     overlapping_elements(OverlapPoints, cache))

NextOverlap == BuildCache \/ RunOverlappingElements

SpecOverlap == InitOverlap /\ [][NextOverlap]_vars


(***************************************************************************)
(* negative_jacobians, and SpecJacobians: the rule is run on an input      *)
(* mesh over Points.                                                       *)
(***************************************************************************)
\* errors.py negative_jacobians, shoelace sum of a quad (twice the area)
Shoelace2(Q) ==
    Q[1][1] * Q[2][2] - Q[1][2] * Q[2][1]
  + Q[2][1] * Q[3][2] - Q[2][2] * Q[3][1]
  + Q[3][1] * Q[4][2] - Q[3][2] * Q[4][1]
  + Q[4][1] * Q[1][2] - Q[4][2] * Q[1][1]

\* mutant: a clockwise triangle is flagged as well
bad_tris_signed(pts, m) ==
    {i \in 0..(Len(m.tris) - 1) :
        LET tri == CoordsOf(pts, m.tris[i + 1]) IN orient(tri[1], tri[2], tri[3]) <= 0}

\* errors.py negative_jacobians: np.nonzero(a <= eps)[0]
bad_tris(pts, m) ==
    {i \in 0..(Len(m.tris) - 1) :
        LET tri == CoordsOf(pts, m.tris[i + 1]) IN Abs(orient(tri[1], tri[2], tri[3])) <= 0}

\* errors.py negative_jacobians: degenerate and bow
bad_quads(pts, m) ==
    LET degenerate == {i \in 0..(Len(m.quads) - 1) :
                          Abs(Shoelace2(CoordsOf(pts, m.quads[i + 1]))) <= 0}
        bow == {i \in 0..(Len(m.quads) - 1) :
                   LET P == CoordsOf(pts, m.quads[i + 1])
                   IN  \/ segments_intersect(P[1], P[2], P[3], P[4])
                       \/ segments_intersect(P[2], P[3], P[4], P[1])}
    IN  degenerate \cup bow

\* errors.py negative_jacobians
negative_jacobians(pts, m) ==
    LET bad == Tagged("tri", SortedSeqOf(bad_tris(pts, m)))
               \o Tagged("quad", SortedSeqOf(bad_quads(pts, m)))
    IN  Finding("negative_jacobians", Len(bad) = 0, Len(bad), Take(bad, 20), TRUE)

RunNegativeJacobians ==
    /\ op = "init"
    /\ ret' = negative_jacobians(Points, mesh)
    /\ op' = "negative_jacobians"
    /\ UNCHANGED <<mesh, pre, arg, registry>>

NextJacobians == RunNegativeJacobians \/ RunSurfaceOrientation

SpecJacobians == InitRules /\ [][NextJacobians]_vars


(***************************************************************************)
(* SpecReorient: reorient_cells is applied to a mesh of up to MaxCells     *)
(* cells with a list of up to MaxReorientIdxs in-range indices, in any     *)
(* order and with repetitions.                                             *)
(***************************************************************************)
ReorientTriCells == {<<0, 1, 3>>, <<3, 1, 0>>, <<1, 2, 3>>}
ReorientQuadCells == {<<0, 1, 2, 3>>}

InitReorient ==
    /\ \E nt \in 0..MaxCells : \E nq \in 0..(MaxCells - nt) :
          \E t \in [1..nt -> ReorientTriCells], q \in [1..nq -> ReorientQuadCells] :
              mesh = mesh_from_reader(t, q)
    /\ pre = mesh
    /\ op = "init"
    /\ arg = None
    /\ ret = None
    /\ registry = REGISTRY

DoReorientMany ==
    /\ op = "init"
    /\ \E kind \in Kinds, len \in 0..MaxReorientIdxs :
          \E idxs \in [1..len -> 0..(Len(Cells(mesh, kind)) - 1)] :
              \E r \in {reorient_cells(mesh, kind, idxs)} :
                  /\ mesh' = r.mesh
                  /\ arg' = [kind |-> kind, idxs |-> idxs]
                  /\ ret' = [ret |-> r.ret, err |-> r.err]
    /\ pre' = mesh
    /\ op' = "reorient_cells"
    /\ UNCHANGED registry

NextReorient == DoReorientMany

SpecReorient == InitReorient /\ [][NextReorient]_vars


(***************************************************************************)
(* Claims on the rules.                                                    *)
(***************************************************************************)
\* positions (0-based) of the cells that repeat the node set of an earlier cell
LaterRepeats(cells) ==
    {i \in 0..(Len(cells) - 1) :
        \E j \in 0..(i - 1) : NodeSet(cells[j + 1]) = NodeSet(cells[i + 1])}

DistinctNodeSets(cells) == {NodeSet(cells[k]) : k \in 1..Len(cells)}

\* the 0-based indices of one kind among the examples of a finding
ExampleIdx(f, kind) ==
    {f.examples[k][2] : k \in {j \in 1..Len(f.examples) : f.examples[j][1] = kind}}

\* C2: duplicate_elements flags cell i exactly when some cell j < i of the
\* same type has the same node set, whatever the rotation or winding and
\* whether or not the duplicates are adjacent in the list; count equals the
\* number of cells minus the number of distinct node sets.
C2_DuplicatesFlagged ==
    op = "duplicate_elements" =>
        /\ ExampleIdx(ret, "tri") = LaterRepeats(mesh.tris)
        /\ ExampleIdx(ret, "quad") = LaterRepeats(mesh.quads)
        /\ ret.count = (Len(mesh.tris) - Cardinality(DistinctNodeSets(mesh.tris)))
                      + (Len(mesh.quads) - Cardinality(DistinctNodeSets(mesh.quads)))

\* C3 as stated: on a mesh of triangles surface_orientation reports ok=true
\* if and only if every triangle has signed area > 0.
C3_OkIffAllPositive ==
    (op = "surface_orientation" /\ Len(mesh.quads) = 0) =>
        (ret.ok <=> \A k \in 1..Len(mesh.tris) : TriArea2(mesh.tris[k]) > 0)

\* C3 amended: on a mesh of triangles surface_orientation reports ok=true if
\* and only if no triangle has signed area < 0; triangle i is flagged
\* exactly when its signed area is < 0 (a zero-area triangle is not flagged),
\* and count is the number of flagged triangles.
C3_OkIffNoneNegative ==
    (op = "surface_orientation" /\ Len(mesh.quads) = 0) =>
        /\ ret.ok <=> \A k \in 1..Len(mesh.tris) : TriArea2(mesh.tris[k]) >= 0
        /\ ExampleIdx(ret, "tri")
             = {i \in 0..(Len(mesh.tris) - 1) : ~(TriArea2(mesh.tris[i + 1]) >= 0)}
        /\ ret.count = Cardinality(ExampleIdx(ret, "tri"))

\* a zero-area triangle next to a counter-clockwise one passes the rule
C3_Witness ==
    /\ op = "surface_orientation"
    /\ Len(mesh.quads) = 0
    /\ \E k \in 1..Len(mesh.tris) : TriArea2(mesh.tris[k]) = 0
    /\ \E k \in 1..Len(mesh.tris) : TriArea2(mesh.tris[k]) > 0
    /\ ret.ok

(***************************************************************************)
(* Claims on the edit primitives and the fixers.                           *)
(***************************************************************************)
\* C4: if surface_orientation flags triangle i, then after
\* reorient_cells(mesh, "tri", [i]) a re-run of surface_orientation no
\* longer flags triangle i, and every other cell is flagged after the
\* reorientation exactly if it was flagged before.
C4_ReorientClearsOnlyThatCell ==
    (/\ op = "reorient_cells"
     /\ arg.kind = "tri"
     /\ Len(arg.idxs) = 1
     /\ arg.idxs[1] \in ExampleIdx(surface_orientation(pre), "tri"))
    => LET i == arg.idxs[1]
           before == surface_orientation(pre)
           after == surface_orientation(mesh)
       IN  /\ ret.err = None
           /\ i \notin ExampleIdx(after, "tri")
           /\ ExampleIdx(after, "tri") = ExampleIdx(before, "tri") \ {i}
           /\ ExampleIdx(after, "quad") = ExampleIdx(before, "quad")
           /\ Len(mesh.tris) = Len(pre.tris) /\ Len(mesh.quads) = Len(pre.quads)

\* a flagged triangle was reoriented while another flagged triangle and an
\* unflagged triangle were left alone
C4_Witness ==
    /\ op = "reorient_cells"
    /\ arg.kind = "tri"
    /\ Len(arg.idxs) = 1
    /\ arg.idxs[1] \in ExampleIdx(surface_orientation(pre), "tri")
    /\ ExampleIdx(surface_orientation(mesh), "tri") # {}
    /\ Cardinality(ExampleIdx(surface_orientation(pre), "tri")) < Len(pre.tris)

\* the rows of `rows` that are the first of their node set, in order
FirstOfNodeSet(rows) ==
    SelectPos(rows, {k \in 1..Len(rows) :
                        \A j \in 1..(k - 1) : NodeSet(rows[j]) # NodeSet(rows[k])}, 1)

NoSharedNodeSet(rows) ==
    \A j, k \in 1..Len(rows) : j # k => NodeSet(rows[j]) # NodeSet(rows[k])

\* C5: after one run of the duplicates fixer no two cells of the same kind
\* share a node set, the survivor of each node set is the cell with the
\* lowest original index, survivors keep their relative order; a second run
\* on the resulting mesh reports applied=0 and leaves the mesh unchanged.
C5_DuplicatesFixer ==
    op = "fix_duplicates" =>
        /\ ret.err = None
        /\ NoSharedNodeSet(mesh.tris) /\ NoSharedNodeSet(mesh.quads)
        /\ mesh.tris = FirstOfNodeSet(pre.tris)
        /\ mesh.quads = FirstOfNodeSet(pre.quads)
        /\ ret.result.applied
             = (Len(pre.tris) - Len(mesh.tris)) + (Len(pre.quads) - Len(mesh.quads))
        /\ LET second == fix_duplicates(mesh, arg, None)
           IN  /\ second.err = None
               /\ second.result.applied = 0
               /\ second.mesh = mesh

\* a duplicate that is not adjacent to its first occurrence was removed and
\* two cells survive
C5_Witness ==
    /\ op = "fix_duplicates"
    /\ Len(pre.tris) = 3
    /\ NodeSet(pre.tris[1]) = NodeSet(pre.tris[3])
    /\ NodeSet(pre.tris[1]) # NodeSet(pre.tris[2])
    /\ pre.tris[1] # pre.tris[3]
    /\ mesh.tris = <<pre.tris[1], pre.tris[2]>>
    /\ ret.result.applied = 1

\* the doubled areas of the listed cells, ascending
AreasOf(m, inc) == SortRow([k \in 1..Len(inc) |-> _cell_area(m, inc[k][1], inc[k][2])])

\* C6: for every canonical edge incident to more than two cells when the
\* multi_edges fixer starts, the two largest-area cells incident to that
\* edge are still present after the fixer finishes and all other cells
\* incident to that edge have been removed.
C6_TwoLargestKept ==
    op = "fix_multi_edges" =>
        \A e \in MeshEdges(pre) :
            LET before == build_edge_cells(pre, e)
                after == build_edge_cells(mesh, e)
            IN  Len(before) > 2 =>
                    /\ Len(after) = 2
                    /\ AreasOf(mesh, after)
                         = SubSeq(AreasOf(pre, before), Len(before) - 1, Len(before))

\* the findings a caller may hand to a fixer for mesh m
AnyFindingArgs(m) ==
    FindingArgs(m, duplicate_elements(m)) \cup FindingArgs(m, multiple_edges(m))
    \cup FindingArgs(m, surface_orientation(m))

\* a finding of no rule of the registry, reporting nothing
ForeignFinding == Finding("unknown_rule", TRUE, 0, <<>>, FALSE)

\* C7: the duplicates fixer and the multi_edges fixer are functions of the
\* current mesh only: whatever finding they are handed (other ok, count or
\* examples, stale or wrong indices included), the resulting mesh and the
\* applied count are those they yield when handed a finding that has
\* nothing to do with the mesh.
C7_DestructiveFixersIgnoreFinding ==
    /\ op = "fix_duplicates" =>
          \E r \in {fix_duplicates(pre, ForeignFinding, None)} :
              r.mesh = mesh /\ r.err = ret.err /\ r.result = ret.result
    /\ op = "fix_multi_edges" =>
          \E r \in {fix_multi_edges(pre, ForeignFinding, None)} :
              r.mesh = mesh /\ r.err = ret.err /\ r.result = ret.result

\* the duplicates fixer removed a cell although it was handed a finding that
\* reports nothing, on a mesh where the orientation fixer's result differs
\* between two findings
C7_Witness ==
    /\ op = "fix_duplicates"
    /\ arg.examples = <<>>
    /\ ret.result.applied > 0
    /\ \E f, g \in AnyFindingArgs(pre) :
          /\ fix_orientation(pre, f, None).err = None
          /\ fix_orientation(pre, g, None).err = None
          /\ fix_orientation(pre, f, None).mesh # fix_orientation(pre, g, None).mesh

\* C8: applying the orientation fixer a second time with the same finding
\* leaves the mesh as the first application left it: a cell made
\* counter-clockwise by the first application is still counter-clockwise
\* after the second.
C8_OrientationFixerIdempotent ==
    (op = "fix_orientation" /\ arg = surface_orientation(pre)) =>
        LET second == fix_orientation(mesh, arg, None)
        IN  /\ second.err = None
            /\ second.mesh = mesh
            /\ BadTris(second.mesh) = {} /\ BadQuads(second.mesh) = {}

(***************************************************************************)
(* Claims on remove_cells.                                                 *)
(***************************************************************************)
IdxSet == {arg.idxs[k] : k \in 1..Len(arg.idxs)}

\* every listed index names a cell of the array: 0 <= i < number of rows
IdxsInRange == \A i \in IdxSet : 0 <= i /\ i < Len(Cells(pre, arg.kind))

\* C14: remove_cells with in-range indices removes exactly the cells whose
\* index is in the set of idxs, whatever the order and repetition of idxs;
\* the survivors keep their relative order; the count returned is the number
\* of distinct indices and the decrease of the number of cells of the kind;
\* the cells of the other kind are untouched.  With an empty list, or with
\* the array of the kind absent, it returns 0 and leaves the mesh as it was.
C14_RemoveCells ==
    op = "remove_cells" =>
        LET before == Cells(pre, arg.kind)
            after == Cells(mesh, arg.kind)
            other == IF arg.kind = "tri" THEN "quad" ELSE "tri"
        IN  /\ (Len(arg.idxs) = 0 \/ arg.kind \in pre.none) =>
                  ret.err = None /\ ret.ret = 0 /\ mesh = pre
            /\ (IdxsInRange /\ arg.kind \notin pre.none) =>
                  /\ ret.err = None
                  /\ ret.ret = Cardinality(IdxSet)
                  /\ ret.ret = Len(before) - Len(after)
                  /\ after = SelectPos(before, {k \in 1..Len(before) : (k - 1) \notin IdxSet}, 1)
                  /\ Cells(mesh, other) = Cells(pre, other)

\* two different cells were removed by a list that names the larger index
\* first, and a cell between other cells survived
C14_Witness ==
    /\ op = "remove_cells"
    /\ IdxsInRange
    /\ Len(arg.idxs) = 2
    /\ arg.idxs[1] > arg.idxs[2]
    /\ Len(Cells(pre, arg.kind)) = 3
    /\ Len(Cells(mesh, arg.kind)) = 1
    /\ ret.ret = 2

(***************************************************************************)
(* Claims on run_repair.                                                   *)
(***************************************************************************)
RuleIds == {ORDER[k] : k \in 1..Len(ORDER)}

\* the positions of the entries of a list that name rule_id
EntriesOf(list, rule_id) == {k \in 1..Len(list) : list[k].rule = rule_id}

\* the calls of the pass made to the fixer of rule_id
CallsOf(rule_id) == {k \in 1..Len(ret.invoked) : ret.invoked[k].rule = rule_id}

Returned == op = "run_repair" /\ ret.err = None

\* C9: in the result of a run_repair call every fixer rule id has exactly one
\* entry over the lists applied, waived and skipped; the entry is in applied
\* iff the fixer ran and returned applied > 0, in waived iff it ran and
\* returned applied = 0 and waived > 0, and in skipped otherwise; the lists
\* name no other rule.
C9_OneListPerRule ==
    Returned =>
        LET res == ret.result
            ran(r, P(_)) == \E k \in CallsOf(r) : P(ret.invoked[k])
            IsApplied(c) == c.applied > 0
            IsWaived(c) == c.applied = 0 /\ c.waived > 0
        IN  /\ \A r \in RuleIds :
                  /\ Cardinality(EntriesOf(res.applied, r))
                       + Cardinality(EntriesOf(res.waived, r))
                       + Cardinality(EntriesOf(res.skipped, r)) = 1
                  /\ EntriesOf(res.applied, r) # {} <=> ran(r, IsApplied)
                  /\ EntriesOf(res.waived, r) # {} <=> ran(r, IsWaived)
                  /\ EntriesOf(res.skipped, r) # {}
                       <=> ~ran(r, IsApplied) /\ ~ran(r, IsWaived)
            /\ \A l \in {res.applied, res.waived, res.skipped} :
                  \A k \in 1..Len(l) : l[k].rule \in RuleIds

\* a pass that returned with one rule applied, one skipped as a no-op after
\* its fixer ran, and one skipped without its fixer being called
C9_Witness ==
    /\ Returned
    /\ ret.result.applied # <<>>
    /\ \E k \in 1..Len(ret.result.skipped) :
          /\ ret.result.skipped[k].reason = "no-op"
          /\ CallsOf(ret.result.skipped[k].rule) # {}
    /\ \E k \in 1..Len(ret.result.skipped) : CallsOf(ret.result.skipped[k].rule) = {}

\* the action of rule_id in the merged plan: the plan's, else the default's
MergedAction(plan, rule_id) ==
    IF /\ "rules" \in DOMAIN plan
       /\ rule_id \in DOMAIN plan.rules
       /\ "action" \in DOMAIN plan.rules[rule_id]
    THEN plan.rules[rule_id].action
    ELSE DEFAULT_PLAN.rules[rule_id].action

PlanDisables(plan, rule_id) ==
    MergedAction(plan, rule_id) \in {"skip", "disabled", "off", "OFF", "Disabled"}

HasFinding(findings, rule_id) ==
    /\ "rules" \in DOMAIN findings
    /\ rule_id \in DOMAIN findings.rules
    /\ DOMAIN findings.rules[rule_id] # {}

\* C10: in a run_repair call the fixer of a rule is invoked iff the merged
\* plan does not disable the rule and the findings hold a non-empty finding
\* for it.  In the result a disabled rule is listed under skipped with the
\* reason "disabled by plan", with or without a finding, and an enabled rule
\* without finding with the reason "no finding for rule"; with every rule
\* disabled the mesh is left as it was read.
C10_InvokedIffEnabledAndFound ==
    op = "run_repair" =>
        /\ \A r \in RuleIds :
              CallsOf(r) # {} <=> ~PlanDisables(arg.plan, r) /\ HasFinding(arg.findings, r)
        /\ (\A r \in RuleIds : PlanDisables(arg.plan, r)) => mesh = pre
        /\ ret.err = None =>
              \A r \in RuleIds :
                  /\ PlanDisables(arg.plan, r) =>
                        \E k \in EntriesOf(ret.result.skipped, r) :
                            ret.result.skipped[k].reason = "disabled by plan"
                  /\ ~PlanDisables(arg.plan, r) /\ ~HasFinding(arg.findings, r) =>
                        \E k \in EntriesOf(ret.result.skipped, r) :
                            ret.result.skipped[k].reason = "no finding for rule"

\* a mesh with a clockwise triangle, reported by the finding, and a plan
\* that disables surface_orientation: a clockwise triangle is left while the
\* duplicates fixer is called and removes a cell
C10_Witness ==
    /\ Returned
    /\ PlanDisables(arg.plan, "surface_orientation")
    /\ HasFinding(arg.findings, "surface_orientation")
    /\ arg.findings.rules["surface_orientation"].ok = FALSE
    /\ BadTris(pre) # {}
    /\ BadTris(mesh) # {}
    /\ CallsOf("duplicate_elements") # {}
    /\ mesh # pre
    /\ \E k \in EntriesOf(ret.result.skipped, "surface_orientation") :
          ret.result.skipped[k].reason = "disabled by plan"

\* the place of a fixer rule in the order duplicates, multi-edges, orientation
PlaceOf(rule_id) ==
    CASE rule_id = "duplicate_elements" -> 1
      [] rule_id = "multiple_edges" -> 2
      [] rule_id = "surface_orientation" -> 3

\* the entries of a list name their rules in strictly ascending place
InPlaceOrder(list) ==
    \A j, k \in 1..Len(list) : j < k => PlaceOf(list[j].rule) < PlaceOf(list[k].rule)

\* C11: in a run_repair pass the fixers that run are called at most once each
\* and in the order duplicate_elements, multiple_edges, surface_orientation;
\* the entries of applied, waived and skipped follow the same order.
C11_FixersInFixedOrder ==
    op = "run_repair" =>
        /\ InPlaceOrder(ret.invoked)
        /\ ret.err = None =>
              /\ InPlaceOrder(ret.result.applied)
              /\ InPlaceOrder(ret.result.waived)
              /\ InPlaceOrder(ret.result.skipped)

\* a pass in which all three fixers were called: the duplicates fixer and
\* the orientation fixer changed the mesh, the multi-edges fixer in between
\* was a no-op
C11_Witness ==
    /\ Returned
    /\ Len(ret.invoked) = 3
    /\ Len(ret.result.applied) = 2
    /\ ret.result.applied[1].rule = "duplicate_elements"
    /\ ret.result.applied[2].rule = "surface_orientation"
    /\ Len(ret.result.skipped) = 1

\* the path a non-dry call is to write the mesh to
TargetPath == IF arg.out_path = None THEN arg.msh_path ELSE arg.out_path

\* the audit log that belongs to a mesh path: same name, suffix .repair.json
SiblingLog(path) == IF path = "out.msh" THEN "out.repair.json" ELSE "mesh.repair.json"

\* the plan in effect: the default plan with the action of every rule that
\* the caller's plan overrides
EffectivePlan(plan) ==
    [DEFAULT_PLAN EXCEPT
        !.rules = [r \in DOMAIN DEFAULT_PLAN.rules |->
                      [DEFAULT_PLAN.rules[r] EXCEPT !.action = MergedAction(plan, r)]]]

\* C12: a dry run writes nothing, and returns log = None and the input path
\* as msh_path.  A call with dry_run = False that returns has written the
\* mesh once, as it is after the last fixer, to out_path (the input path
\* when no out_path is given), and after it one audit log next to it holding
\* applied, skipped, waived and the effective merged plan.
C12_DryRunWritesNothingElseOnce ==
    op = "run_repair" =>
        /\ arg.dry_run => ret.writes = <<>>
        /\ (arg.dry_run /\ ret.err = None) =>
              /\ ret.result.log = None
              /\ ret.result.msh_path = arg.msh_path
        /\ (~arg.dry_run /\ ret.err = None) =>
              /\ Len(ret.writes) = 2
              /\ ret.writes[1] = [path |-> TargetPath, tris |-> mesh.tris, quads |-> mesh.quads]
              /\ Len(ret.invoked) > 0 => ret.invoked[Len(ret.invoked)].after = mesh
              /\ Len(ret.invoked) = 0 => mesh = pre
              /\ ret.writes[2].path = SiblingLog(TargetPath)
              /\ ret.writes[2].log = [applied |-> ret.result.applied,
                                      skipped |-> ret.result.skipped,
                                      waived |-> ret.result.waived,
                                      plan |-> EffectivePlan(arg.plan)]
              /\ ret.result.msh_path = TargetPath
              /\ ret.result.log = SiblingLog(TargetPath)

\* a call with dry_run = False and an out_path whose fixers changed the mesh
\* under a plan that overrides an action
C12_Witness ==
    /\ Returned
    /\ ~arg.dry_run
    /\ arg.out_path = "out.msh"
    /\ mesh # pre
    /\ DOMAIN arg.plan # {}
    /\ Len(ret.writes) = 2
    /\ ret.writes[1].path = "out.msh"

EnabledBy(config, rid) ==
    IF "enabled" \notin DOMAIN config THEN DEFAULTS_enabled[rid]
    ELSE IF ~config.enabled.dict THEN TRUE
    ELSE IF rid \in DOMAIN config.enabled.items THEN config.enabled.items[rid]
    ELSE DEFAULTS_enabled[rid]

\* the verdict of a rule on the mesh of the call
Fails(rid) ==
    CASE rid = "surface_orientation" -> BadTris(mesh) # {} \/ BadQuads(mesh) # {}
      [] rid = "duplicate_elements" -> ~duplicate_elements(mesh).ok
      [] rid = "multiple_edges" -> ~multiple_edges(mesh).ok
      [] OTHER -> rid \in arg.fails

\* C1: the top-level ok of run_checks is false iff some rule that was
\* enabled and is registered with severity "error" produced a finding with
\* ok = false; the findings of "warn" rules have no part in it.
C1_OkIffNoEnabledErrorFails ==
    op = "run_checks" =>
        /\ ret.ok = FALSE <=>
              \E rid \in Range(ErrorRules) : EnabledBy(arg.config, rid) /\ Fails(rid)
        /\ ret.ok = FALSE <=>
              \E rid \in DOMAIN ret.rules :
                  REGISTRY[rid].severity = "error" /\ ~ret.rules[rid].ok

\* a call in which an enabled warn rule fails, the result holds its failing
\* finding, and the top-level ok is true
C1_Witness ==
    /\ op = "run_checks"
    /\ ret.ok
    /\ \E rid \in Range(WarnRules) :
          /\ rid \in DOMAIN ret.rules
          /\ ~ret.rules[rid].ok
          /\ ret.rules[rid].severity = "warn"

\* position of a rule id in RULES_ORDER (0 when it is not there)
PlaceInOrder(rid) ==
    IF rid \in Range(RULES_ORDER)
    THEN CHOOSE k \in 1..Len(RULES_ORDER) : RULES_ORDER[k] = rid
    ELSE 0

\* how often x occurs in xs
Occurrences(xs, x) == Cardinality({k \in 1..Len(xs) : xs[k] = x})

\* the rule is registered and the configuration of the pass enables it
RunsIn(rid) == rid \in DOMAIN REGISTRY /\ EnabledBy(arg.config, rid)

\* C15: in a run_checks pass the mesh view and the cache are built exactly
\* once each, before any rule runs; every enabled registered rule is called
\* exactly once and no other is; the calls follow RULES_ORDER; and the
\* findings are stored in the report in that same order, whatever the order
\* in which the rules were registered.
C15_ViewThenRulesInOrder ==
    op = "run_checks" =>
        \E expected \in {SelectSeq(RULES_ORDER, RunsIn)} :
            /\ Cardinality(Range(RULES_ORDER)) = Len(RULES_ORDER)
            /\ ret.calls = <<"build_mesh_view", "precompute_cache">> \o expected
            /\ ret.keys = expected
            /\ DOMAIN ret.rules = Range(expected)

\* a pass that runs bl_continuity and missing_physical_groups, which were
\* registered in the opposite order, and runs a warn rule after them
C15_Witness ==
    /\ op = "run_checks"
    /\ \E i, j, k \in 1..Len(ret.keys) :
          /\ i < j /\ j < k
          /\ ret.keys[i] = "missing_physical_groups"
          /\ ret.keys[j] = "bl_continuity"
          /\ ret.keys[k] = "untagged_entities"
    /\ \E rid \in Range(RULES_ORDER) : rid \notin DOMAIN ret.rules

\* the config names rid in its "enabled" map
Mentions(config, rid) ==
    /\ "enabled" \in DOMAIN config
    /\ config.enabled.dict
    /\ rid \in DOMAIN config.enabled.items

\* C17: every rule is enabled by default: a rule that the configuration
\* does not mention in `enabled` is executed, and a call with no
\* configuration reports one finding for every rule id of RULES_ORDER and
\* maps every rule id to true in meta.enabled.
C17_EveryRuleEnabledByDefault ==
    op = "run_checks" =>
        /\ \A rid \in Range(RULES_ORDER) :
              ~Mentions(arg.config, rid) => rid \in DOMAIN ret.rules
        /\ arg.config = EmptyDict =>
              /\ DOMAIN ret.rules = Range(RULES_ORDER)
              /\ ret.meta.enabled.dict
              /\ \A rid \in Range(RULES_ORDER) :
                    Get(ret.meta.enabled.items, rid, FALSE)

\* C18: every finding in the report of run_checks carries the rule id it is
\* stored under and the severity the registry declares for that rule,
\* whatever id and severity the rule function returned.
C18_StoredIdAndSeverityFromRegistry ==
    op = "run_checks" =>
        \A rid \in DOMAIN ret.rules :
            /\ rid \in DOMAIN REGISTRY
            /\ ret.rules[rid].id = rid
            /\ ret.rules[rid].severity = REGISTRY[rid].severity

\* a pass in which a rule function returned another id and severity than
\* those of its registration, and its finding is in the report
C18_Witness ==
    /\ op = "run_checks"
    /\ arg.stray
    /\ \E rid \in OracleRules \cap DOMAIN ret.rules :
          /\ RuleFn(rid, mesh, arg.fails, arg.stray).id # rid
          /\ RuleFn(rid, mesh, arg.fails, arg.stray).severity # REGISTRY[rid].severity
          /\ ~ret.rules[rid].ok

(***************************************************************************)
(* Claims on get_enabled_ids.                                              *)
(***************************************************************************)
\* the enabled-map maps rid to a false value
MapsToFalse(em, rid) == em.dict /\ rid \in DOMAIN em.items /\ ~em.items[rid]

\* C16: for every enabled-map (None, the empty map and maps that mention
\* unregistered ids included) get_enabled_ids returns the ids of
\* RULES_ORDER that the map does not map to a false value, each once and in
\* the order of RULES_ORDER; an id the map does not mention is returned, an
\* id that is not in RULES_ORDER never is.
C16_EnabledIdsFilterRulesOrder ==
    op = "get_enabled_ids" =>
        /\ \A k \in 1..Len(ret) : ret[k] \in Range(RULES_ORDER)
        /\ \A rid \in Range(RULES_ORDER) :
              Occurrences(ret, rid) = IF MapsToFalse(arg, rid) THEN 0 ELSE 1
        /\ \A i, j \in 1..Len(ret) :
              i < j => PlaceInOrder(ret[i]) < PlaceInOrder(ret[j])

\* a map that switches one registered rule off and an unregistered id on,
\* and leaves the other rules out
C16_Witness ==
    /\ op = "get_enabled_ids"
    /\ arg.dict
    /\ DOMAIN arg.items = {"bl_continuity", "unknown_rule"}
    /\ ~arg.items["bl_continuity"]
    /\ arg.items["unknown_rule"]
    /\ Len(ret) = Len(RULES_ORDER) - 1

(***************************************************************************)
(* Claims on the registry.                                                 *)
(***************************************************************************)
\* every entry is stored under its own id and has a severity of the two
WellFormed(reg) ==
    \A rid \in DOMAIN reg : reg[rid].id = rid /\ reg[rid].severity \in {"error", "warn"}

\* the step registers a RuleSpec that _add has to refuse
RefusedStep ==
    /\ op' = "_add"
    /\ arg'.id \in DOMAIN registry \/ arg'.severity \notin {"error", "warn"}

\* C19: registering a RuleSpec whose id is already in the registry, or whose
\* severity is neither "error" nor "warn", raises and leaves the registry
\* unchanged, and any other registration stores the RuleSpec under its id;
\* so after any sequence of registrations every entry is stored under its
\* own id with severity "error" or "warn".
C19_RegistryRefusesDuplicatesAndSeverities ==
    /\ []WellFormed(registry)
    /\ [][/\ RefusedStep => ret'.err = "ValueError" /\ registry' = registry
          /\ (op' = "_add" /\ ~RefusedStep) =>
                /\ ret'.err = None
                /\ DOMAIN registry' = (DOMAIN registry) \cup {arg'.id}
                /\ registry'[arg'.id] = arg'
                /\ \A rid \in DOMAIN registry : registry'[rid] = registry[rid]]_vars

\* a registration with a valid severity was refused because its id is
\* taken, and the entry of that id is still the earlier, different RuleSpec
C19_Witness ==
    /\ op = "_add"
    /\ ret.err = "ValueError"
    /\ arg.severity \in {"error", "warn"}
    /\ arg.id \in DOMAIN registry
    /\ registry[arg.id].severity # arg.severity
    /\ "custom_rule" \in DOMAIN registry

(***************************************************************************)
(* Claims on merge_plan and _deep_merge.                                   *)
(***************************************************************************)
\* the key paths of a plan
KeyPaths ==
    LET top == {"rules", "verify"}
        mid == {"duplicate_elements", "multiple_edges"}
        low == {"action", "prefer"}
    IN  {<<a>> : a \in top}
        \cup {<<a, b>> : a \in top, b \in mid}
        \cup {<<a, b, c>> : a \in top, b \in mid, c \in low}

Missing == LeafTree("<missing>")

\* the value of a nested value at a key path
RECURSIVE At(_, _)
At(tree, path) ==
    IF path = <<>> THEN tree
    ELSE IF tree.dict /\ Head(path) \in DOMAIN tree.items
    THEN At(tree.items[Head(path)], Tail(path))
    ELSE Missing

IsLeaf(tree) == ~tree.dict /\ tree # Missing

\* no proper prefix of the path is a leaf of the override
NotReplaced(upd, path) ==
    \A n \in 1..(Len(path) - 1) : ~IsLeaf(At(upd, SubSeq(path, 1, n)))

\* right bias: a leaf of the override, and a dict of the override where the
\* base has no dict, is in the result; a base path the override does not
\* mention is kept; the result has no other key
RightBiased(base, upd, out) ==
    \A p \in KeyPaths :
        /\ IsLeaf(At(upd, p)) => At(out, p) = At(upd, p)
        /\ (At(upd, p).dict /\ ~At(base, p).dict) => At(out, p) = At(upd, p)
        /\ (At(base, p) # Missing /\ At(upd, p) = Missing /\ NotReplaced(upd, p)) =>
              At(out, p) = At(base, p)
        /\ At(out, p) # Missing => (At(base, p) # Missing \/ At(upd, p) # Missing)

\* C20: merge_plan and _deep_merge are a right-biased deep merge that
\* mutates neither argument: every key path of the override has the
\* override's value in the result, every key of the base that the override
\* does not mention keeps its value (inside nested dicts too), an empty
\* override gives a copy equal to the base, and merging the same override
\* a second time changes nothing.
C20_RightBiasedDeepMerge ==
    op = "merge" =>
        LET base == TreeOf(arg.heap, arg.base)
            upd == TreeOf(arg.heap, arg.upd)
            out == TreeOf(ret.heap, ret.out)
        IN  /\ out.dict
            /\ RightBiased(base, upd, out)
            /\ \A n \in 1..Len(arg.heap) :
                  ret.heap[n] = arg.heap[n] /\ ret.heap2[n] = arg.heap[n]
            /\ Falsy(arg.heap, arg.upd) =>
                  /\ out = base
                  /\ Reach(ret.heap, ret.out) \cap (1..Len(arg.heap)) = {}
            /\ TreeOf(ret.heap2, ret.again) = out

\* the override sets rules.duplicate_elements.action only: the result has
\* it, and keeps prefer of that rule, the other rule and verify
C20_Witness ==
    /\ op = "merge"
    /\ TreeOf(arg.heap, arg.upd) =
          DictTree([rules |-> DictTree([duplicate_elements |->
                                           DictTree([action |-> LeafTree("skip")])])])
    /\ At(TreeOf(arg.heap, arg.base), <<"rules", "duplicate_elements", "prefer">>)
          = LeafTree("first")
    /\ TreeOf(ret.heap, ret.out) =
          DictTree([rules |-> DictTree([duplicate_elements |->
                                            DictTree([action |-> LeafTree("skip"),
                                                      prefer |-> LeafTree("first")]),
                                        multiple_edges |->
                                            DictTree([action |-> LeafTree("dedupe")])]),
                    verify |-> LeafTree("False")])

(***************************************************************************)
(* Claims on the check cache.                                              *)
(***************************************************************************)
\* C24: with T triangles and Q quads the cache numbers triangle i as cell i
\* and quad j as cell T + j; cell_edges has exactly the keys 0..T+Q-1;
\* every edge (u, v) of a cache table has u <= v; edge_cells lists cell c
\* under edge e iff e is an edge of cell_edges[c]; and node_cells lists
\* cell c under node n iff n is a node of cell c.
C24_CacheNumberingAndInverses ==
    op = "precompute_cache" =>
        LET T == Len(mesh.tris)
            Q == Len(mesh.quads)
            ids == 0..(T + Q - 1)
        IN  /\ DOMAIN ret.unified_cells = ids
            /\ \A i \in 0..(T - 1) : ret.unified_cells[i] = mesh.tris[i + 1]
            /\ \A j \in 0..(Q - 1) : ret.unified_cells[T + j] = mesh.quads[j + 1]
            /\ DOMAIN ret.cell_edges = ids
            /\ \A c \in ids :
                  /\ Range(ret.cell_edges[c]) = CellEdges(ret.unified_cells[c])
                  /\ \A e \in Range(ret.cell_edges[c]) :
                        e[1] <= e[2] /\ e \in DOMAIN ret.edge_cells
                  /\ \A n \in NodeSet(ret.unified_cells[c]) : n \in DOMAIN ret.node_cells
            /\ \A e \in DOMAIN ret.edge_cells :
                  /\ e[1] <= e[2]
                  /\ Range(ret.edge_cells[e]) = {c \in ids : e \in Range(ret.cell_edges[c])}
                  /\ ret.edge_cells[e] # <<>>
            /\ \A n \in DOMAIN ret.node_cells :
                  /\ Range(ret.node_cells[n]) = {c \in ids : n \in NodeSet(ret.unified_cells[c])}
                  /\ ret.node_cells[n] # <<>>

\* a cache of a mesh with triangles and a quad, in which a triangle that
\* lists node 3 before node 1 has its edge under (1, 3), next to the quad
C24_Witness ==
    /\ op = "precompute_cache"
    /\ Len(mesh.tris) = 2
    /\ Len(mesh.quads) = 1
    /\ mesh.tris[2] = <<3, 1, 0>>
    /\ ret.unified_cells[2] = <<0, 1, 2, 3>>
    /\ ret.edge_cells[<<0, 3>>] = <<1, 2>>
    /\ <<1, 3>> \in Range(ret.cell_edges[1])

\* the edges of the cache handed to the rule whose degree satisfies want
EdgesOfDegree(want(_)) == {e \in DOMAIN arg.edge_cells : want(Len(arg.edge_cells[e]))}

IsOne(d) == d = 1
IsNotTwo(d) == d # 2

\* the finding reports exactly the edges of `edges`
Flags(finding, edges) ==
    /\ finding.count = Cardinality(edges)
    /\ finding.ok = (edges = {})
    /\ Range(finding.examples) = edges
    /\ finding.details = "note"

\* the finding of a rule that was skipped
Skipped(finding) ==
    /\ finding.ok
    /\ finding.count = 0
    /\ finding.examples = <<>>
    /\ finding.details = "skipped"

\* C23: an absent boundary-edge set is unknown, not empty: without it
\* uncovered_faces and missing_internal_faces return ok = true, count = 0
\* and a "skipped" detail on every mesh; with an empty set uncovered_faces
\* flags every edge of degree 1 and missing_internal_faces every edge whose
\* degree is not 2.
C23_AbsentBoundaryIsUnknown ==
    /\ op = "uncovered_faces" =>
          /\ ~arg.boundary_edges.known => Skipped(ret)
          /\ (arg.boundary_edges.known /\ arg.boundary_edges.edges = {}) =>
                Flags(ret, EdgesOfDegree(IsOne))
    /\ op = "missing_internal_faces" =>
          /\ ~arg.boundary_edges.known => Skipped(ret)
          /\ (arg.boundary_edges.known /\ arg.boundary_edges.edges = {}) =>
                Flags(ret, EdgesOfDegree(IsNotTwo))

\* missing_internal_faces was skipped on a cache that has edges of degree 1
\* and is built as precompute_cache builds it
C23_Witness ==
    /\ op = "missing_internal_faces"
    /\ arg = precompute_cache(mesh)
    /\ ~arg.boundary_edges.known
    /\ EdgesOfDegree(IsOne) # {}
    /\ Skipped(ret)

\* the unified cells of the mesh whose vertex cycle contains edge e
CellsListing(e) ==
    {c \in 0..(Len(mesh.tris) + Len(mesh.quads) - 1) :
        e \in CellEdges(_build_unified_cells(mesh)[c])}

\* C29: the degree len(edge_cells[e]) of every edge of the cache is the
\* number of distinct unified cells whose vertex cycle contains e, also
\* for cells that repeat a node; so nonmanifold reports an edge exactly
\* when more than two different cells list it.
C29_DegreeCountsDistinctCells ==
    /\ op = "precompute_cache" =>
          \A e \in DOMAIN ret.edge_cells :
              Len(ret.edge_cells[e]) = Cardinality(CellsListing(e))
    /\ op = "nonmanifold" =>
          Range(ret.edges_gt2) =
              {e \in DOMAIN arg.edge_cells : Cardinality(CellsListing(e)) > 2}

(***************************************************************************)
(* Claims on overlapping_elements.                                         *)
(***************************************************************************)
\* the cell numbered cid in the mesh: triangles first, then quads
CellAt(m, cid) ==
    IF cid < Len(m.tris) THEN m.tris[cid + 1] ELSE m.quads[cid - Len(m.tris) + 1]

\* C21: no pair reported by overlapping_elements consists of two cells that
\* share a canonical edge.
C21_NoAdjacentPairReported ==
    op = "overlapping_elements" =>
        \A k \in 1..Len(ret.examples) :
            CellEdges(CellAt(mesh, ret.examples[k][1]))
                \cap CellEdges(CellAt(mesh, ret.examples[k][2])) = {}

\* a mesh with a reported pair and with two different cells across an edge
C21_Witness ==
    /\ op = "overlapping_elements"
    /\ ret.count > 0
    /\ \E i, j \in 0..(Len(mesh.tris) + Len(mesh.quads) - 1) :
          /\ i < j
          /\ CellAt(mesh, i) # CellAt(mesh, j)
          /\ CellEdges(CellAt(mesh, i)) \cap CellEdges(CellAt(mesh, j)) # {}

\* the line through a and b has polygon A on one side and B on the other
Separates(a, b, A, B) ==
    \/ /\ \A k \in 1..Len(A) : orient(a, b, A[k]) >= 0
       /\ \A k \in 1..Len(B) : orient(a, b, B[k]) <= 0
    \/ /\ \A k \in 1..Len(A) : orient(a, b, A[k]) <= 0
       /\ \A k \in 1..Len(B) : orient(a, b, B[k]) >= 0

\* two convex polygons have a common interior point iff the line of no edge
\* of either separates them (this covers containment)
InteriorsMeet(A, B) ==
    /\ \A k \in 1..Len(A) : ~Separates(A[k], A[(k % Len(A)) + 1], A, B)
    /\ \A k \in 1..Len(B) : ~Separates(B[k], B[(k % Len(B)) + 1], A, B)

\* C26: overlapping_elements reports a pair of cells only if their interiors
\* intersect or one contains the other; two cells without a common edge that
\* meet in a single shared node are not reported.
C26_OnlyRealOverlapsReported ==
    op = "overlapping_elements" =>
        \A k \in 1..Len(ret.examples) :
            InteriorsMeet(CoordsOf(OverlapPoints, CellAt(mesh, ret.examples[k][1])),
                          CoordsOf(OverlapPoints, CellAt(mesh, ret.examples[k][2])))

(***************************************************************************)
(* Claims on negative_jacobians.                                           *)
(***************************************************************************)
\* segments [p, q] and [r, s] have a common point: on one line their boxes
\* overlap, otherwise neither segment lies strictly on one side of the other
SegmentsMeet(p, q, r, s) ==
    IF orient(p, q, r) = 0 /\ orient(p, q, s) = 0
    THEN /\ Max2(Min2(p[1], q[1]), Min2(r[1], s[1])) <= Min2(Max2(p[1], q[1]), Max2(r[1], s[1]))
         /\ Max2(Min2(p[2], q[2]), Min2(r[2], s[2])) <= Min2(Max2(p[2], q[2]), Max2(r[2], s[2]))
    ELSE /\ orient(p, q, r) * orient(p, q, s) <= 0
         /\ orient(r, s, p) * orient(r, s, q) <= 0

\* a triangle without area; a quad without area or with two opposite edges
\* that meet
Invalid(c) ==
    IF Len(c) = 3 THEN TriArea2(c) = 0
    ELSE \/ QuadArea2(c) = 0
         \/ SegmentsMeet(Points[c[1]], Points[c[2]], Points[c[3]], Points[c[4]])
         \/ SegmentsMeet(Points[c[2]], Points[c[3]], Points[c[4]], Points[c[1]])

\* the mesh with the node order of every cell reversed
AllReversed(m) ==
    [m EXCEPT !.tris = [k \in 1..Len(m.tris) |-> Reverse(m.tris[k])],
              !.quads = [k \in 1..Len(m.quads) |-> Reverse(m.quads[k])]]

\* C22: negative_jacobians flags a triangle iff its area is zero and a quad
\* iff its shoelace area is zero or two opposite edges intersect; reversing
\* the node order of a cell never changes whether it is flagged.
C22_FlagsDegenerateNotWinding ==
    op = "negative_jacobians" =>
        /\ \A kind \in Kinds : \A i \in 0..(Len(Cells(mesh, kind)) - 1) :
              (<<kind, i>> \in Range(ret.examples)) <=> Invalid(Cells(mesh, kind)[i + 1])
        /\ ret.count = Len(ret.examples)
        /\ ret.ok <=> ret.count = 0
        /\ negative_jacobians(Points, AllReversed(mesh)).examples = ret.examples

\* a mesh with a clockwise triangle that is not flagged, and the bow-tie
\* quad 0 2 1 3, of non-zero area, that is
C22_Witness ==
    /\ op = "negative_jacobians"
    /\ \E i \in 0..(Len(mesh.tris) - 1) :
          TriArea2(mesh.tris[i + 1]) < 0 /\ <<"tri", i>> \notin Range(ret.examples)
    /\ \E i \in 0..(Len(mesh.quads) - 1) :
          /\ mesh.quads[i + 1] = <<0, 2, 1, 3>>
          /\ QuadArea2(mesh.quads[i + 1]) # 0
          /\ <<"quad", i>> \in Range(ret.examples)

(***************************************************************************)
(* Claims on the orientation fixer inside run_repair.                      *)
(***************************************************************************)
\* the findings of the checks on mesh m, for the rules that have a fixer
FreshFindings(m) == [rules |-> [r \in Range(ORDER) |-> RuleFinding(m, r)]]

\* twice the signed area of a cell
CellArea2(c) == IF Len(c) = 3 THEN TriArea2(c) ELSE QuadArea2(c)

\* C25: in a run_repair pass with the default plan and the findings of the
\* checks on the same mesh, the orientation fixer never indexes outside the
\* cell arrays, also after an earlier fixer removed cells; when the pass
\* ends, no cell is clockwise, and every cell is a counter-clockwise cell of
\* the input or the reversal of a clockwise one.
C25_OrientationFixAfterRemovals ==
    (op = "run_repair" /\ arg.plan = EmptyDict /\ arg.findings = FreshFindings(pre)) =>
        /\ ret.err # "IndexError"
        /\ ret.err = None =>
              \A kind \in Kinds : \A k \in 1..Len(Cells(mesh, kind)) :
                  LET c == Cells(mesh, kind)[k]
                  IN  /\ CellArea2(c) >= 0
                      /\ \E j \in 1..Len(Cells(pre, kind)) :
                            LET b == Cells(pre, kind)[j]
                            IN  c = (IF CellArea2(b) < 0 THEN Reverse(b) ELSE b)

(***************************************************************************)
(* Claims on the multiple_edges check and the multi_edges fixer.           *)
(***************************************************************************)
\* C27: if the multiple_edges check reports ok on a mesh, the multi_edges
\* fixer run on that mesh removes no cell; if the fixer removes a cell, the
\* check reports not ok.
C27_CheckAndFixerAgree ==
    op = "fix_multi_edges" =>
        /\ multiple_edges(pre).ok => (ret.err = None /\ ret.result.applied = 0 /\ mesh = pre)
        /\ mesh # pre => ~multiple_edges(pre).ok

\* the cells of mesh m whose cycle contains the canonical edge e
CellsOn(m, e) ==
    {c \in Kinds \X (1..(Len(m.tris) + Len(m.quads))) :
        /\ c[2] <= Len(Cells(m, c[1]))
        /\ e \in CellEdges(Cells(m, c[1])[c[2]])}

\* C28: after the multi_edges fixer no canonical edge of the mesh is
\* incident to more than two cells, applied is the number of cells removed,
\* and a second run reports applied = 0.
C28_FixerLeavesAtMostTwoPerEdge ==
    op = "fix_multi_edges" =>
        /\ ret.err = None
        /\ \A e \in MeshEdges(pre) : Cardinality(CellsOn(mesh, e)) <= 2
        /\ ret.result.applied
             = (Len(pre.tris) - Len(mesh.tris)) + (Len(pre.quads) - Len(mesh.quads))
        /\ LET second == fix_multi_edges(mesh, arg, None)
           IN  /\ second.err = None
               /\ second.result.applied = 0
               /\ second.mesh = mesh

\* one cell, the extra of two edges with more than two cells each, was
\* removed and counted once
C28_Witness ==
    /\ op = "fix_multi_edges"
    /\ ret.result.applied = 1
    /\ Len(mesh.tris) + Len(mesh.quads) = Len(pre.tris) + Len(pre.quads) - 1
    /\ Cardinality({e \in MeshEdges(pre) : Cardinality(CellsOn(pre, e)) > 2}) >= 2

(***************************************************************************)
(* Claims on reorient_cells with several indices.                          *)
(***************************************************************************)
\* the index lists with the entries of idxs in another order
Reordered(idxs) ==
    {[k \in 1..Len(idxs) |-> idxs[p[k]]] :
        p \in {f \in [1..Len(idxs) -> 1..Len(idxs)] :
                  \A a, b \in 1..Len(idxs) : a # b => f[a] # f[b]}}

OtherKind(kind) == IF kind = "tri" THEN "quad" ELSE "tri"

\* C30: reorient_cells with distinct in-range indices reverses the node
\* order of exactly the listed cells and leaves every other cell and the
\* other kind's array unchanged; the result does not depend on the order of
\* the indices; every cell keeps its node set and its canonical edges, so
\* the edge-to-cells adjacency and the duplicate keys are as before.
C30_ReorientFrame ==
    (/\ op = "reorient_cells"
     /\ \A a, b \in 1..Len(arg.idxs) : a # b => arg.idxs[a] # arg.idxs[b])
    => LET old == Cells(pre, arg.kind)
           new == Cells(mesh, arg.kind)
       IN  /\ ret.err = None
           /\ ret.ret = (IF arg.kind \in pre.none THEN 0 ELSE Len(arg.idxs))
           /\ new = [k \in 1..Len(old) |->
                        IF (k - 1) \in Range(arg.idxs) THEN Reverse(old[k]) ELSE old[k]]
           /\ Cells(mesh, OtherKind(arg.kind)) = Cells(pre, OtherKind(arg.kind))
           /\ mesh.none = pre.none
           /\ \A other \in Reordered(arg.idxs) :
                 reorient_cells(pre, arg.kind, other).mesh = mesh
           /\ \A k \in 1..Len(old) :
                 /\ NodeSet(new[k]) = NodeSet(old[k])
                 /\ CellEdges(new[k]) = CellEdges(old[k])
           /\ precompute_cache(mesh).edge_cells = precompute_cache(pre).edge_cells
           /\ [k \in 1..Len(mesh.tris) |-> TriKey(mesh.tris[k])]
                = [k \in 1..Len(pre.tris) |-> TriKey(pre.tris[k])]
           /\ [k \in 1..Len(mesh.quads) |-> QuadKey(mesh.quads[k])]
                = [k \in 1..Len(pre.quads) |-> QuadKey(pre.quads[k])]

\* two of three triangles were listed, the later one first, and the third
\* was left as it was
C30_Witness ==
    /\ op = "reorient_cells"
    /\ arg.kind = "tri"
    /\ Len(arg.idxs) = 2
    /\ arg.idxs[1] > arg.idxs[2]
    /\ Len(pre.tris) > 2
    /\ mesh.tris # pre.tris
    /\ \E k \in 1..Len(pre.tris) : (k - 1) \notin Range(arg.idxs) /\ mesh.tris[k] = pre.tris[k]
====
